---- MODULE Spec2Model ----
(***************************************************************************)
(* The affiliate commission and payout ledger of commercive-app-v2:        *)
(* lead intake, lead conversion, balance computation, payout request and   *)
(* payout settlement, as request handlers running against a shared         *)
(* key-value store without transactions.                                   *)
(*                                                                         *)
(* Every handler is split at its store calls: the code up to and including *)
(* one store call is one atomic step, so that concurrent invocations       *)
(* interleave exactly where the code lets them.  A store call may fail;    *)
(* utils/dynamodb.py turns a failure into False / None / [] and the        *)
(* handlers go on from there.                                              *)
(*                                                                         *)
(* Representation: ids are positive integers (the position of the record   *)
(* in its table), None is 0 for ids and timestamps and "none" for strings. *)
(* A stored timestamp is Now: the claims are about whether and when a time *)
(* is written, which a step shows, not about its value.                    *)
(***************************************************************************)
EXTENDS Integers, Sequences, FiniteSets, TLC

VARIABLES
  affiliates,   \* table commercive_affiliates: affiliate_id -> record
  links,        \* table commercive_affiliate_links: link_id -> record
  leads,        \* table commercive_leads: sequence, lead_id = index
  commissions,  \* table commercive_commissions: sequence, commission_id = index
  payouts,      \* table commercive_payouts: sequence, payout_id = index
  pc,           \* per invocation slot: the handler's position
  loc,          \* per invocation slot: the handler's local variables
  out,          \* the response returned by the last step, if it returned one
  bal,          \* calculate_balance called on its own: its inputs and its result
  wh,           \* the webhook endpoint: its tables, its position, its response
  hist          \* history, read by no handler: per payout, how it was admitted
                \* and how often it was added to total_paid

vars == <<affiliates, links, leads, commissions, payouts, pc, loc, out, bal, wh, hist>>
store == <<affiliates, links, leads, commissions, payouts>>

(***************************************************************************)
(* Bounds of the model.                                                    *)
(***************************************************************************)
MaxLeads == 2     \* lead records submit_lead may create
MaxCommissions == 2  \* commission records convert_lead may create
MaxPayouts == 2   \* payout records handle_request_payout may create

\* The invocation slots: two handlers may run at the same time.
Procs == {1, 2}

(***************************************************************************)
(* Program constants.                                                      *)
(***************************************************************************)
MINIMUM_PAYOUT == 1000

\* datetime.utcnow().isoformat(), as stored in a record (0 = None).
Now == 1

\* The outcomes of a store call: TRUE = served, FALSE = the call failed.
Outcomes == {TRUE, FALSE}
NoFault == {TRUE}

\* Callers: a verified identity or "anon" (missing or invalid token).
Callers == {"admin", "u1", "u2", "anon"}

\* require_auth: the token's payload, or the 401 response.
require_auth(caller) ==
  IF caller = "anon" THEN "Invalid or missing authentication token" ELSE "ok"

role(caller) == IF caller = "admin" THEN "admin" ELSE "user"

\* A check that lets every authenticated caller through.
require_admin_AnyUser(caller) == require_auth(caller)

\* require_admin: require_auth, then the role check.
require_admin(caller) ==
  IF require_auth(caller) # "ok" THEN require_auth(caller)
  ELSE IF role(caller) # "admin" THEN "Admin access required"
  ELSE "ok"

NoLoc == [op |-> "none"]
NoOut == [op |-> "none", msg |-> "none"]

\* A handler returns its response: the slot becomes idle.
Ret(p, op, msg) ==
  /\ pc' = [pc EXCEPT ![p] = "idle"]
  /\ loc' = [loc EXCEPT ![p] = NoLoc]
  /\ out' = [op |-> op, msg |-> msg]

\* A handler goes on to its next store call.
Goto(p, label, locals) ==
  /\ pc' = [pc EXCEPT ![p] = label]
  /\ loc' = [loc EXCEPT ![p] = locals]
  /\ out' = NoOut

\* query(..., index_name='user-affiliate-index', Key('user_id').eq(user_id))
AffiliatesOfUser(user) ==
  {a \in DOMAIN affiliates : affiliates[a].user_id = user}

\* query(..., index_name='short-code-index', Key('short_code').eq(code))
LinksOfCode(code) ==
  {l \in DOMAIN links : links[l].short_code = code}

(***************************************************************************)
(* Inputs of the requests.                                                 *)
(***************************************************************************)
\* link_id of a request body: 0 = absent from the body, 9 = an id of no link.
LinkIdInputs == {0, 1, 2, 9}
\* short_code of a request body: "none" = absent, "ZZZZZZ" = a code of no link.
ShortCodeInputs == {"none", "AB12CD", "EF34GH", "ZZZZZZ"}
\* The contact fields of a lead submission, by what the validation finds.
Contacts == {"ok", "no_name", "no_email", "no_phone", "bad_email"}
\* status of an update_lead_status body: "" = absent, "bogus" = no valid status.
StatusInputs == {"", "new", "contacted", "converted", "lost", "bogus"}
valid_statuses == {"new", "contacted", "converted", "lost"}
\* amount of a convert_lead or request_payout body, in cents.
LeadIdInputs == 1..MaxLeads

\* submit_lead's validation of the contact fields.
ContactCheck(contact) ==
  CASE contact = "no_name" -> "name is required"
    [] contact = "no_email" -> "email is required"
    [] contact = "no_phone" -> "phone is required"
    [] contact = "bad_email" -> "Invalid email format"
    [] OTHER -> "ok"

\* The JSON value of the body's amount field: its kind and a number n.  For
\* "int" and "digits" (a string of digits, sign allowed) n is the number, for
\* "float" n is the number in tenths, for "bool" n is 1 or 0; "null" is an
\* absent or null field, "text" a string that is no integer literal, "empty"
\* the empty string and "list" an array.
JInt(n) == [kind |-> "int", n |-> n]
JFloat(tenths) == [kind |-> "float", n |-> tenths]
JDigits(n) == [kind |-> "digits", n |-> n]
JBool(b) == [kind |-> "bool", n |-> IF b THEN 1 ELSE 0]
JNull == [kind |-> "null", n |-> 0]
JText == [kind |-> "text", n |-> 0]
JEmpty == [kind |-> "empty", n |-> 0]
JList == [kind |-> "list", n |-> 0]

AmountInputs ==
  {JNull, JEmpty, JText, JList, JBool(TRUE), JBool(FALSE),
   JInt(-1000), JInt(0), JInt(500), JInt(1000), JInt(2000),
   JFloat(-5), JFloat(5), JFloat(9995), JFloat(20000), JFloat(20005),
   JDigits(0), JDigits(2000)}

\* Python's truth value of a JSON value (`if not amount`).
Truthy(v) ==
  CASE v.kind \in {"null", "empty"} -> FALSE
    [] v.kind \in {"int", "float", "bool"} -> v.n # 0
    [] OTHER -> TRUE

\* int(v) raises ValueError or TypeError.
IntRaises(v) == v.kind \in {"null", "empty", "text", "list"}

\* int(v) where it does not raise: a float is truncated toward zero.
int(v) ==
  IF v.kind = "float"
    THEN IF v.n >= 0 THEN v.n \div 10 ELSE -((-v.n) \div 10)
  ELSE v.n

\* The validation of amount: `if not amount`, int(amount), `amount <= 0`.
AmountCheck(amount, nonpositive, invalid) ==
  IF ~Truthy(amount) THEN "amount is required"
  ELSE IF IntRaises(amount) THEN invalid
  ELSE IF int(amount) <= 0 THEN nonpositive
  ELSE "ok"

\* The two handlers' messages for an amount that int() does not take.
ConvertInvalidMsg == "amount must be a valid integer (in cents)"
RequestInvalidMsg == "amount must be a valid number in cents"

(***************************************************************************)
(* submit_lead: POST /leads/submit, public.                                *)
(***************************************************************************)
SubmittedMsg == "Thank you for your submission! We will contact you soon."

\* A confirmation that names the affiliate the lead was attributed to.
SubmitResponse_NamesAffiliate(affiliate_id, link_id) == affiliate_id

\* Lines 181-184: created(message=...) with no data: the body holds the
\* success flag and the message, nothing of the lead, the link or the
\* affiliate.
SubmitResponse(affiliate_id, link_id) == SubmittedMsg

\* The leads being written by invocations that passed the link check.
SubmitsInFlight == Cardinality({q \in Procs : pc[q] = "sub_put"})

\* A submit_lead that does not look at is_active.
IsActive_Unchecked(link) == TRUE

\* Line 122: the link may be used for attribution.
IsActive(link) == link.is_active

\* Lines 72-126: validation, the lookup of the link, the link checks.
SubmitStart(p, link_id, short_code, contact, ok) ==
  /\ pc[p] = "idle"
  /\ UNCHANGED <<store, bal, wh, hist>>
  /\ IF link_id = 0 /\ short_code = "none"
       THEN Ret(p, "submit_lead", "link_id or short_code is required")
     ELSE IF ContactCheck(contact) # "ok"
       THEN Ret(p, "submit_lead", ContactCheck(contact))
     ELSE
       LET found == IF ~ok THEN {}
                    ELSE IF link_id # 0 THEN {link_id} \cap DOMAIN links
                    ELSE LinksOfCode(short_code)
       IN IF found = {}
            THEN Ret(p, "submit_lead", "Invalid referral link")
          ELSE \E l \in found :
            IF ~IsActive(links[l])
              THEN Ret(p, "submit_lead", "This referral link is no longer active")
            ELSE /\ Len(leads) + SubmitsInFlight < MaxLeads
                 /\ Goto(p, "sub_put",
                         [op |-> "submit_lead", link_id |-> l,
                          affiliate_id |-> links[l].affiliate_id,
                          leads_count |-> links[l].leads_count])

\* A submit_lead that counts the lead although it could not be written.
SubmitPutLead_GoesOn(p, ok) ==
  /\ pc[p] = "sub_put"
  /\ UNCHANGED <<affiliates, links, commissions, payouts, bal, wh, hist>>
  /\ leads' = IF ok
                THEN Append(leads, [affiliate_id |-> loc[p].affiliate_id,
                                    link_id |-> loc[p].link_id,
                                    status |-> "new",
                                    converted_at |-> 0])
              ELSE leads
  /\ Goto(p, "sub_link", loc[p])

\* Lines 128-150: put_item of the lead.
SubmitPutLead(p, ok) ==
  /\ pc[p] = "sub_put"
  /\ UNCHANGED <<affiliates, links, commissions, payouts, bal, wh, hist>>
  /\ IF ~ok
       THEN /\ UNCHANGED leads
            /\ Ret(p, "submit_lead", "Failed to save lead")
     ELSE /\ leads' = Append(leads, [affiliate_id |-> loc[p].affiliate_id,
                                     link_id |-> loc[p].link_id,
                                     status |-> "new",
                                     converted_at |-> 0])
          /\ Goto(p, "sub_link", loc[p])

\* A submit_lead that gives up when the link's counter cannot be written.
SubmitUpdateLink_Strict(p, ok) ==
  /\ pc[p] = "sub_link"
  /\ UNCHANGED <<affiliates, leads, commissions, payouts, bal, wh, hist>>
  /\ IF ok
       THEN /\ links' = [links EXCEPT ![loc[p].link_id].leads_count =
                                          loc[p].leads_count + 1]
            /\ Goto(p, "sub_aff_get", loc[p])
     ELSE /\ UNCHANGED links
          /\ Ret(p, "submit_lead", "Failed to update link")

\* Lines 152-163: leads_count of the link, from the link read at the start.
SubmitUpdateLink(p, ok) ==
  /\ pc[p] = "sub_link"
  /\ UNCHANGED <<affiliates, leads, commissions, payouts, bal, wh, hist>>
  /\ links' = IF ok
                THEN [links EXCEPT ![loc[p].link_id].leads_count = loc[p].leads_count + 1]
              ELSE links
  /\ Goto(p, "sub_aff_get", loc[p])

\* Lines 165-168: get_item of the affiliate.
SubmitGetAffiliate(p, ok) ==
  /\ pc[p] = "sub_aff_get"
  /\ UNCHANGED <<store, bal, wh, hist>>
  /\ IF ok /\ loc[p].affiliate_id \in DOMAIN affiliates
       THEN Goto(p, "sub_aff_upd",
                 [loc[p] EXCEPT !.leads_count = affiliates[loc[p].affiliate_id].total_leads])
     ELSE Ret(p, "submit_lead", SubmitResponse(loc[p].affiliate_id, loc[p].link_id))

\* An update that writes total_leads back as it was read.
SubmitUpdateAffiliate_NoIncrement(p, ok) ==
  /\ pc[p] = "sub_aff_upd"
  /\ UNCHANGED <<links, leads, commissions, payouts, bal, wh, hist>>
  /\ affiliates' = IF ok
                     THEN [affiliates EXCEPT ![loc[p].affiliate_id].total_leads =
                                                 loc[p].leads_count]
                   ELSE affiliates
  /\ Ret(p, "submit_lead", SubmitResponse(loc[p].affiliate_id, loc[p].link_id))

\* Lines 169-184: total_leads of the affiliate, then the confirmation.
SubmitUpdateAffiliate(p, ok) ==
  /\ pc[p] = "sub_aff_upd"
  /\ UNCHANGED <<links, leads, commissions, payouts, bal, wh, hist>>
  /\ affiliates' = IF ok
                     THEN [affiliates EXCEPT ![loc[p].affiliate_id].total_leads =
                                                 loc[p].leads_count + 1]
                   ELSE affiliates
  /\ Ret(p, "submit_lead", SubmitResponse(loc[p].affiliate_id, loc[p].link_id))

(***************************************************************************)
(* update_lead_status: PUT /leads/{id}/status, any authenticated caller.   *)
(***************************************************************************)
\* Lines 283-310: authentication, validation of status, get_item of the lead.
UpdateStart(p, caller, lead_id, status, ok) ==
  /\ pc[p] = "idle"
  /\ UNCHANGED <<store, bal, wh, hist>>
  /\ IF require_auth(caller) # "ok"
       THEN Ret(p, "update_lead_status", require_auth(caller))
     ELSE IF status # "" /\ status \notin valid_statuses
       THEN Ret(p, "update_lead_status", "Invalid status")
     ELSE IF ~ok \/ lead_id \notin DOMAIN leads
       THEN Ret(p, "update_lead_status", "Lead not found")
     ELSE Goto(p, IF role(caller) # "admin" THEN "upd_owner" ELSE "upd_write",
               [op |-> "update_lead_status", caller |-> caller, lead_id |-> lead_id,
                status |-> status, affiliate_id |-> leads[lead_id].affiliate_id])

\* Lines 311-325: the caller's affiliate record must be the lead's.
UpdateCheckOwner(p, ok) ==
  /\ pc[p] = "upd_owner"
  /\ UNCHANGED <<store, bal, wh, hist>>
  /\ LET affiliate_results == IF ok THEN AffiliatesOfUser(loc[p].caller) ELSE {}
     IN IF affiliate_results = {}
          THEN Ret(p, "update_lead_status", "You do not have access to this lead")
        ELSE \E a \in affiliate_results :
          IF a # loc[p].affiliate_id
            THEN Ret(p, "update_lead_status", "You do not have access to this lead")
          ELSE Goto(p, "upd_write", loc[p])

\* The status update_lead_status stores: the one of the body when it has one.
UpdatedStatus(old, status) == IF status # "" THEN status ELSE old

\* Lines 327-338: update_item of the lead.
UpdateWrite(p, ok) ==
  /\ pc[p] = "upd_write"
  /\ UNCHANGED <<affiliates, links, commissions, payouts, bal, wh, hist>>
  /\ IF ~ok
       THEN /\ UNCHANGED leads
            /\ Ret(p, "update_lead_status", "Failed to update lead")
     ELSE /\ leads' = [leads EXCEPT ![loc[p].lead_id].status =
                                       UpdatedStatus(@, loc[p].status)]
          /\ Goto(p, "upd_back", loc[p])

\* Lines 340-357: the lead is read back for the response; a failed read
\* returns None, whose .get raises, and the handler answers 500.
UpdateReadBack(p, ok) ==
  /\ pc[p] = "upd_back"
  /\ UNCHANGED <<store, bal, wh, hist>>
  /\ Ret(p, "update_lead_status",
         IF ok THEN "Lead updated successfully" ELSE "Failed to update lead")

(***************************************************************************)
(* convert_lead: POST /leads/{id}/convert, administrators only.            *)
(***************************************************************************)
AlreadyConvertedMsg == "Lead has already been converted"
ConvertedMsg == "Lead converted to commission successfully"

\* A guard that compares the status in another letter case.
IsConverted_WrongCase(lead) == lead.status = "Converted"

\* Line 406: the idempotency guard on the lead as read.
IsConverted(lead) == lead.status = "converted"

\* Lines 374-410: authentication, validation of amount, get_item of the lead,
\* the already-converted guard, the reading of the time.
ConversionsInFlight == Cardinality({q \in Procs : pc[q] = "conv_put"})

ConvertStart(p, caller, lead_id, amount, ok) ==
  /\ pc[p] = "idle"
  /\ UNCHANGED <<store, bal, wh, hist>>
  /\ IF require_admin(caller) # "ok"
       THEN Ret(p, "convert_lead", require_admin(caller))
     ELSE IF AmountCheck(amount, "amount must be greater than 0", ConvertInvalidMsg) # "ok"
       THEN Ret(p, "convert_lead",
                AmountCheck(amount, "amount must be greater than 0", ConvertInvalidMsg))
     ELSE IF ~ok \/ lead_id \notin DOMAIN leads
       THEN Ret(p, "convert_lead", "Lead not found")
     ELSE IF IsConverted(leads[lead_id])
       THEN Ret(p, "convert_lead", AlreadyConvertedMsg)
     ELSE /\ Len(commissions) + ConversionsInFlight < MaxCommissions
          /\ Goto(p, "conv_put",
                  [op |-> "convert_lead", lead_id |-> lead_id, amount |-> int(amount),
                   affiliate_id |-> leads[lead_id].affiliate_id,
                   link_id |-> leads[lead_id].link_id,
                   now |-> Now, total_conversions |-> 0, total_earned |-> 0,
                   conversions_count |-> 0])

\* A convert_lead that goes on after the commission could not be written.
ConvertPutCommission_GoesOn(p, ok) ==
  /\ pc[p] = "conv_put"
  /\ UNCHANGED <<affiliates, links, leads, payouts, bal, wh, hist>>
  /\ commissions' = IF ok
                      THEN Append(commissions,
                                  [affiliate_id |-> loc[p].affiliate_id,
                                   lead_id |-> loc[p].lead_id,
                                   amount |-> loc[p].amount,
                                   status |-> "pending",
                                   payout_id |-> 0])
                    ELSE commissions
  /\ Goto(p, "conv_lead", loc[p])

\* Lines 412-427: put_item of the commission.
ConvertPutCommission(p, ok) ==
  /\ pc[p] = "conv_put"
  /\ UNCHANGED <<affiliates, links, leads, payouts, bal, wh, hist>>
  /\ IF ~ok
       THEN /\ UNCHANGED commissions
            /\ Ret(p, "convert_lead", "Failed to create commission")
     ELSE /\ commissions' = Append(commissions,
                                   [affiliate_id |-> loc[p].affiliate_id,
                                    lead_id |-> loc[p].lead_id,
                                    amount |-> loc[p].amount,
                                    status |-> "pending",
                                    payout_id |-> 0])
          /\ Goto(p, "conv_lead", loc[p])

\* A convert_lead that gives up when the lead cannot be updated.
ConvertUpdateLead_Strict(p, ok) ==
  /\ pc[p] = "conv_lead"
  /\ UNCHANGED <<affiliates, links, commissions, payouts, bal, wh, hist>>
  /\ IF ok
       THEN /\ leads' = [leads EXCEPT ![loc[p].lead_id].status = "converted",
                                      ![loc[p].lead_id].converted_at = loc[p].now]
            /\ Goto(p, "conv_aff_get", loc[p])
     ELSE /\ UNCHANGED leads
          /\ Ret(p, "convert_lead", "Failed to update lead")

\* Lines 429-438: update_item of the lead; a failure is only logged.
ConvertUpdateLead(p, ok) ==
  /\ pc[p] = "conv_lead"
  /\ UNCHANGED <<affiliates, links, commissions, payouts, bal, wh, hist>>
  /\ leads' = IF ok
                THEN [leads EXCEPT ![loc[p].lead_id].status = "converted",
                                   ![loc[p].lead_id].converted_at = loc[p].now]
              ELSE leads
  /\ Goto(p, "conv_aff_get", loc[p])

\* Lines 441-445: get_item of the affiliate.
ConvertGetAffiliate(p, ok) ==
  /\ pc[p] = "conv_aff_get"
  /\ UNCHANGED <<store, bal, wh, hist>>
  /\ IF ok /\ loc[p].affiliate_id \in DOMAIN affiliates
       THEN Goto(p, "conv_aff_upd",
                 [loc[p] EXCEPT
                    !.total_conversions = affiliates[loc[p].affiliate_id].total_conversions,
                    !.total_earned = affiliates[loc[p].affiliate_id].total_earned])
     ELSE Goto(p, "conv_link_get", loc[p])

\* An update of the affiliate that credits the amount twice.
ConvertUpdateAffiliate_Twice(p, ok) ==
  /\ pc[p] = "conv_aff_upd"
  /\ UNCHANGED <<links, leads, commissions, payouts, bal, wh, hist>>
  /\ affiliates' = IF ok
                     THEN [affiliates EXCEPT
                             ![loc[p].affiliate_id].total_conversions =
                                 loc[p].total_conversions + 1,
                             ![loc[p].affiliate_id].total_earned =
                                 loc[p].total_earned + 2 * loc[p].amount]
                   ELSE affiliates
  /\ Goto(p, "conv_link_get", loc[p])

\* An update of the affiliate that counts the conversion and leaves
\* total_earned as it was.
ConvertUpdateAffiliate_CountOnly(p, ok) ==
  /\ pc[p] = "conv_aff_upd"
  /\ UNCHANGED <<links, leads, commissions, payouts, bal, wh, hist>>
  /\ affiliates' = IF ok
                     THEN [affiliates EXCEPT
                             ![loc[p].affiliate_id].total_conversions =
                                 loc[p].total_conversions + 1]
                   ELSE affiliates
  /\ Goto(p, "conv_link_get", loc[p])

\* Lines 447-457: the affiliate's totals, from the record read one step before.
ConvertUpdateAffiliate(p, ok) ==
  /\ pc[p] = "conv_aff_upd"
  /\ UNCHANGED <<links, leads, commissions, payouts, bal, wh, hist>>
  /\ affiliates' = IF ok
                     THEN [affiliates EXCEPT
                             ![loc[p].affiliate_id].total_conversions =
                                 loc[p].total_conversions + 1,
                             ![loc[p].affiliate_id].total_earned =
                                 loc[p].total_earned + loc[p].amount]
                   ELSE affiliates
  /\ Goto(p, "conv_link_get", loc[p])

\* Lines 460-465: get_item of the lead's link.
ConvertGetLink(p, ok) ==
  /\ pc[p] = "conv_link_get"
  /\ UNCHANGED <<store, bal, wh, hist>>
  /\ IF ok /\ loc[p].link_id \in DOMAIN links
       THEN Goto(p, "conv_link_upd",
                 [loc[p] EXCEPT !.conversions_count = links[loc[p].link_id].conversions_count])
     ELSE Ret(p, "convert_lead", ConvertedMsg)

\* Lines 466-486: conversions_count of the link, then the 201 response.
ConvertUpdateLink(p, ok) ==
  /\ pc[p] = "conv_link_upd"
  /\ UNCHANGED <<affiliates, leads, commissions, payouts, bal, wh, hist>>
  /\ links' = IF ok
                THEN [links EXCEPT ![loc[p].link_id].conversions_count =
                                       loc[p].conversions_count + 1]
              ELSE links
  /\ Ret(p, "convert_lead", ConvertedMsg)

(***************************************************************************)
(* handle_generate_link: POST /affiliates/links, an affiliate.             *)
(***************************************************************************)
MaxLinks == 4
max_attempts == 10

\* Line 609: string.ascii_uppercase + string.digits, one character each.
chars ==
  {"A", "B", "C", "D", "E", "F", "G", "H", "I", "J", "K", "L", "M", "N", "O", "P",
   "Q", "R", "S", "T", "U", "V", "W", "X", "Y", "Z",
   "0", "1", "2", "3", "4", "5", "6", "7", "8", "9"}

\* Line 611: what random.choices(chars, k=6) can draw.
ChoicesSamples ==
  {<<"A", "B", "1", "2", "C", "D">>, <<"E", "F", "3", "4", "G", "H">>,
   <<"Z", "Z", "Z", "Z", "Z", "Z">>}

\* Line 623: the first nine characters of what str(uuid.uuid4()) can be:
\* eight lowercase hexadecimal digits and a hyphen.
Uuid4Samples ==
  {<<"a", "b", "1", "2", "c", "d", "e", "f", "-">>,
   <<"1", "a", "2", "b", "3", "c", "4", "d", "-">>}

\* str.upper on one character of a uuid.
upper(c) ==
  CASE c = "a" -> "A" [] c = "b" -> "B" [] c = "c" -> "C"
    [] c = "d" -> "D" [] c = "e" -> "E" [] c = "f" -> "F"
    [] OTHER -> c

\* The strings of the model and the characters they are made of.
CodeTable ==
  {<<"AB12CD", <<"A", "B", "1", "2", "C", "D">>>>,
   <<"EF34GH", <<"E", "F", "3", "4", "G", "H">>>>,
   <<"ZZZZZZ", <<"Z", "Z", "Z", "Z", "Z", "Z">>>>,
   <<"1A2B3C", <<"1", "A", "2", "B", "3", "C">>>>,
   <<"ab12cd", <<"a", "b", "1", "2", "c", "d">>>>,
   <<"1a2b3c", <<"1", "a", "2", "b", "3", "c">>>>,
   <<"AB12CDEF", <<"A", "B", "1", "2", "C", "D", "E", "F">>>>,
   <<"1A2B3C4D", <<"1", "A", "2", "B", "3", "C", "4", "D">>>>}

\* ''.join(cs)
join(cs) == (CHOOSE e \in CodeTable : e[2] = cs)[1]

\* s[:6].upper() on the characters of s.
Truncated(s) == [i \in 1..6 |-> upper(s[i])]

\* What random.choices can draw, and what str(uuid.uuid4())[:6].upper() can
\* be: six hexadecimal digits, which are letters and digits of the alphabet.
CodeSamples == {join(cs) : cs \in ChoicesSamples}
UuidSamples == {join(Truncated(s)) : s \in Uuid4Samples}
LinkNames == {"ok", "empty", "long"}
LinkCreatedMsg == "Link created successfully"

NameCheck(name) ==
  CASE name = "empty" -> "Link name is required"
    [] name = "long" -> "Link name must be 100 characters or less"
    [] OTHER -> "ok"

\* A link record as handle_generate_link creates it.
NewLink(affiliate_id, short_code, is_active) ==
  [affiliate_id |-> affiliate_id, short_code |-> short_code, is_active |-> is_active,
   leads_count |-> 0, conversions_count |-> 0]

LinksInFlight == Cardinality({q \in Procs : pc[q] \in {"gen_try", "gen_put"}})

\* Lines 248-283: authentication, the is_affiliate claim of the token, the
\* validation of name, the query of the caller's affiliate.
GenerateStart(p, caller, is_affiliate, name, ok) ==
  /\ pc[p] = "idle"
  /\ UNCHANGED <<store, bal, wh, hist>>
  /\ IF require_auth(caller) # "ok"
       THEN Ret(p, "generate_link", require_auth(caller))
     ELSE IF ~is_affiliate
       THEN Ret(p, "generate_link", "Affiliate access required")
     ELSE IF NameCheck(name) # "ok"
       THEN Ret(p, "generate_link", NameCheck(name))
     ELSE
       LET found == IF ok THEN AffiliatesOfUser(caller) ELSE {}
       IN IF found = {}
            THEN Ret(p, "generate_link", "Affiliate record not found")
          ELSE /\ Len(links) + LinksInFlight < MaxLinks
               /\ \E a \in found :
                    Goto(p, "gen_try",
                         [op |-> "generate_link", affiliate_id |-> a,
                          attempts |-> 0, short_code |-> "none"])

\* A loop that makes one more pass before it falls back.
GenerateTry_OneMore(p, short_code, uuid, ok) ==
  /\ pc[p] = "gen_try"
  /\ UNCHANGED <<store, bal, wh, hist>>
  /\ LET existing_links == IF ok THEN LinksOfCode(short_code) ELSE {}
     IN IF existing_links = {}
          THEN Goto(p, "gen_put", [loc[p] EXCEPT !.short_code = short_code])
        ELSE IF loc[p].attempts + 1 <= max_attempts
          THEN Goto(p, "gen_try", [loc[p] EXCEPT !.attempts = @ + 1])
        ELSE Goto(p, "gen_put", [loc[p] EXCEPT !.attempts = @ + 1, !.short_code = uuid])

\* generate_unique_short_code, lines 607-623: one pass of the loop, a code
\* drawn at random and the query for it; a failed query returns [].  After
\* the last pass that found the code taken, the truncated uuid is returned
\* without a query.
GenerateTry(p, short_code, uuid, ok) ==
  /\ pc[p] = "gen_try"
  /\ UNCHANGED <<store, bal, wh, hist>>
  /\ LET existing_links == IF ok THEN LinksOfCode(short_code) ELSE {}
     IN IF existing_links = {}
          THEN Goto(p, "gen_put", [loc[p] EXCEPT !.short_code = short_code])
        ELSE IF loc[p].attempts + 1 < max_attempts
          THEN Goto(p, "gen_try", [loc[p] EXCEPT !.attempts = @ + 1])
        ELSE Goto(p, "gen_put", [loc[p] EXCEPT !.attempts = @ + 1, !.short_code = uuid])

\* Lines 287-320: put_item of the link, the response.
GeneratePut(p, ok) ==
  /\ pc[p] = "gen_put"
  /\ UNCHANGED <<affiliates, leads, commissions, payouts, bal, wh, hist>>
  /\ IF ok
       THEN /\ links' = Append(links, NewLink(loc[p].affiliate_id, loc[p].short_code, TRUE))
            /\ Ret(p, "generate_link", LinkCreatedMsg)
     ELSE /\ UNCHANGED links
          /\ Ret(p, "generate_link", "Failed to create link")

(***************************************************************************)
(* calculate_balance (commercive_payouts.py).                              *)
(***************************************************************************)
ZeroBalance == [total_earned |-> 0, total_paid |-> 0, pending |-> 0, available |-> 0]

Max(a, b) == IF a >= b THEN a ELSE b

\* A loop that leaves the pending and processing payouts out.
RECURSIVE SumPayouts_CompletedOnly(_, _, _, _)
SumPayouts_CompletedOnly(ps, i, completed_amount, pending_amount) ==
  IF i > Len(ps)
    THEN [completed |-> completed_amount, pending |-> pending_amount]
  ELSE IF ps[i].status = "completed"
    THEN SumPayouts_CompletedOnly(ps, i + 1, completed_amount + ps[i].amount, pending_amount)
  ELSE SumPayouts_CompletedOnly(ps, i + 1, completed_amount, pending_amount)

\* Lines 315-326: the loop over the queried payouts, from position i on, with
\* the two running sums.
RECURSIVE SumPayouts(_, _, _, _)
SumPayouts(ps, i, completed_amount, pending_amount) ==
  IF i > Len(ps)
    THEN [completed |-> completed_amount, pending |-> pending_amount]
  ELSE IF ps[i].status = "completed"
    THEN SumPayouts(ps, i + 1, completed_amount + ps[i].amount, pending_amount)
  ELSE IF ps[i].status \in {"pending", "processing"}
    THEN SumPayouts(ps, i + 1, completed_amount, pending_amount + ps[i].amount)
  ELSE SumPayouts(ps, i + 1, completed_amount, pending_amount)

\* A balance that takes total_paid from the affiliate record's cached field.
BalanceOf_Cached(affiliate, ps) ==
  LET sums == SumPayouts(ps, 1, 0, 0)
  IN [total_earned |-> affiliate.total_earned,
      total_paid |-> affiliate.total_paid,
      pending |-> sums.pending,
      available |-> Max(0, affiliate.total_earned - affiliate.total_paid - sums.pending)]

\* Lines 304-339: the balance from the affiliate record and the query's result.
BalanceOf(affiliate, ps) ==
  LET sums == SumPayouts(ps, 1, 0, 0)
  IN [total_earned |-> affiliate.total_earned,
      total_paid |-> sums.completed,
      pending |-> sums.pending,
      available |-> Max(0, affiliate.total_earned - sums.completed - sums.pending)]

\* Lines 297-349: found = the affiliate was read; a missing affiliate raises
\* and the except branch returns the zero balance.
calculate_balance(found, affiliate, ps) ==
  IF ~found THEN ZeroBalance ELSE BalanceOf(affiliate, ps)

\* query(..., index_name='affiliate-payouts-index', Key('affiliate_id').eq(id));
\* a failed query returns [].
PayoutsOfAffiliate(affiliate_id, ok) ==
  IF ok THEN SelectSeq(payouts, LAMBDA r : r.affiliate_id = affiliate_id) ELSE <<>>

(***************************************************************************)
(* handle_request_payout: POST /payouts/request, an active affiliate.      *)
(***************************************************************************)
RequestAmountInputs ==
  {JNull, JInt(-1000), JInt(0), JInt(500), JInt(999), JInt(1000), JInt(2000)}
PaymentMethodInputs == {"none", "paypal", "zelle", "venmo"}
PaymentEmailInputs == {"none", "pay@x"}
PayoutRequestedMsg == "Payout request submitted successfully"
ExceedsMsg == "Requested amount exceeds available balance"
BelowMinimumMsg == "Minimum payout amount is $10.00"

\* `a or b` on values whose falsy form is "none".
\* Payment details that prefer the stored value to the supplied one.
OrElse_StoredFirst(a, b) == IF b # "none" THEN b ELSE a

OrElse(a, b) == IF a # "none" THEN a ELSE b

\* An admission check with the comparison turned around.
Exceeds_Reversed(amount, available) == amount < available

\* An admission check that lets a request through up to the minimum payout
\* above the balance.
Exceeds_Lenient(amount, available) == amount > available + MINIMUM_PAYOUT

\* Line 107: the admission check against the balance just computed.
Exceeds(amount, available) == amount > available

\* The checks without the minimum payout threshold.
AdmissionCheck_NoMinimum(amount, available, payment_method, payment_email) ==
  IF Exceeds(amount, available) THEN ExceedsMsg
  ELSE IF payment_method = "none" THEN "payment_method is required (paypal or zelle)"
  ELSE IF payment_method \notin {"paypal", "zelle"}
    THEN "payment_method must be either paypal or zelle"
  ELSE IF payment_email = "none" THEN "payment_email is required"
  ELSE "ok"

\* Lines 106-128: the checks between the balance and the write, in order.
AdmissionCheck(amount, available, payment_method, payment_email) ==
  IF Exceeds(amount, available) THEN ExceedsMsg
  ELSE IF amount < MINIMUM_PAYOUT THEN BelowMinimumMsg
  ELSE IF payment_method = "none" THEN "payment_method is required (paypal or zelle)"
  ELSE IF payment_method \notin {"paypal", "zelle"}
    THEN "payment_method must be either paypal or zelle"
  ELSE IF payment_email = "none" THEN "payment_email is required"
  ELSE "ok"

\* A check that takes an affiliate record of any status.
IsActiveAffiliate_AnyStatus(affiliate) == TRUE

\* Line 99: the caller's affiliate record must be active.
IsActiveAffiliate(affiliate) == affiliate.status = "active"

RequestsInFlight == Cardinality({q \in Procs : pc[q] = "req_put"})

\* Lines 68-100: authentication, validation of amount, the caller's affiliate.
RequestStart(p, caller, amount, payment_method, payment_email, ok) ==
  /\ pc[p] = "idle"
  /\ UNCHANGED <<store, bal, wh, hist>>
  /\ IF require_auth(caller) # "ok"
       THEN Ret(p, "request_payout", require_auth(caller))
     ELSE IF AmountCheck(amount, "amount must be a positive number", RequestInvalidMsg) # "ok"
       THEN Ret(p, "request_payout",
                AmountCheck(amount, "amount must be a positive number", RequestInvalidMsg))
     ELSE
       LET affiliate_results == IF ok THEN AffiliatesOfUser(caller) ELSE {}
       IN IF affiliate_results = {}
            THEN Ret(p, "request_payout", "You must be an affiliate to request payouts")
          ELSE \E a \in affiliate_results :
            IF ~IsActiveAffiliate(affiliates[a])
              THEN Ret(p, "request_payout", "Your affiliate account is not active")
            ELSE Goto(p, "req_bal_aff",
                      [op |-> "request_payout", affiliate_id |-> a, amount |-> int(amount),
                       payment_method |-> OrElse(payment_method, affiliates[a].payment_method),
                       payment_email |-> OrElse(payment_email, affiliates[a].payment_email),
                       total_earned |-> 0, available |-> 0, seen |-> 0])

\* Lines 102-110 with calculate_balance lines 297-305: get_item of the
\* affiliate; when it fails the balance is zero and the amount exceeds it.
RequestBalanceGetAffiliate(p, ok) ==
  /\ pc[p] = "req_bal_aff"
  /\ UNCHANGED <<store, bal, wh, hist>>
  /\ IF ok /\ loc[p].affiliate_id \in DOMAIN affiliates
       THEN Goto(p, "req_bal_query",
                 [loc[p] EXCEPT !.total_earned = affiliates[loc[p].affiliate_id].total_earned])
     ELSE LET check == AdmissionCheck(loc[p].amount,
                                      calculate_balance(FALSE, <<>>, <<>>).available,
                                      loc[p].payment_method, loc[p].payment_email)
          IN IF check # "ok"
               THEN Ret(p, "request_payout", check)
             ELSE Goto(p, "req_put", loc[p])

\* Lines 102-128 with calculate_balance lines 307-339: the query of the
\* affiliate's payouts, the balance, the admission checks.
RequestBalanceQuery(p, ok) ==
  /\ pc[p] = "req_bal_query"
  /\ UNCHANGED <<store, bal, wh, hist>>
  /\ LET balance_info == calculate_balance(TRUE, [total_earned |-> loc[p].total_earned],
                                           PayoutsOfAffiliate(loc[p].affiliate_id, ok))
         check == AdmissionCheck(loc[p].amount, balance_info.available,
                                 loc[p].payment_method, loc[p].payment_email)
     IN IF check # "ok"
          THEN Ret(p, "request_payout", check)
        ELSE /\ Len(payouts) + RequestsInFlight < MaxPayouts
             /\ Goto(p, "req_put", [loc[p] EXCEPT !.available = balance_info.available,
                                                  !.seen = IF ok THEN Len(payouts) ELSE -1])

\* Lines 130-162: put_item of the payout.
RequestPut(p, ok) ==
  /\ pc[p] = "req_put"
  /\ UNCHANGED <<affiliates, links, leads, commissions, bal, wh>>
  /\ hist' = IF ok
               THEN [hist EXCEPT !.admitted = Append(@, [available |-> loc[p].available,
                                                         fresh |-> loc[p].seen = Len(payouts)]),
                                 !.credited = Append(@, 0)]
             ELSE hist
  /\ IF ~ok
       THEN /\ UNCHANGED payouts
            /\ Ret(p, "request_payout", "Failed to create payout request")
     ELSE /\ payouts' = Append(payouts,
                               [affiliate_id |-> loc[p].affiliate_id,
                                amount |-> loc[p].amount,
                                payment_method |-> loc[p].payment_method,
                                payment_email |-> loc[p].payment_email,
                                status |-> "pending",
                                transaction_id |-> "none",
                                processed_at |-> 0,
                                processed_by |-> "none"])
          /\ Ret(p, "request_payout", PayoutRequestedMsg)

(***************************************************************************)
(* process_payout: POST /admin/payouts/{id}/process, administrators only.  *)
(***************************************************************************)
TransactionIdInputs == {"t1", "t2"}
PayoutIdInputs == 1..MaxPayouts
AlreadyProcessedMsg == "Payout has already been processed"
ProcessedMsg == "Payout processed successfully"

\* A guard that only turns away failed payouts.
Settleable_NotFailed(payout) == payout.status # "failed"

\* Line 722: the statuses from which a payout may be settled.
Settleable(payout) == payout.status \in {"pending", "processing"}

\* Lines 707-733: the admin check, get_item of the payout, the status guard,
\* the reading of the time.
ProcessStart(p, caller, payout_id, transaction_id, ok) ==
  /\ pc[p] = "idle"
  /\ UNCHANGED <<store, bal, wh, hist>>
  /\ IF require_admin(caller) # "ok"
       THEN Ret(p, "process_payout", require_admin(caller))
     ELSE IF ~ok \/ payout_id \notin DOMAIN payouts
       THEN Ret(p, "process_payout", "Payout not found")
     ELSE IF ~Settleable(payouts[payout_id])
       THEN Ret(p, "process_payout", AlreadyProcessedMsg)
     ELSE Goto(p, "proc_upd",
               [op |-> "process_payout", payout_id |-> payout_id,
                admin |-> caller, transaction_id |-> transaction_id,
                affiliate_id |-> payouts[payout_id].affiliate_id,
                amount |-> payouts[payout_id].amount,
                now |-> Now, total_paid |-> 0])

\* A settlement that marks the payout 'failed'.
ProcessUpdatePayout_MarksFailed(p, ok) ==
  /\ pc[p] = "proc_upd"
  /\ UNCHANGED <<affiliates, links, leads, commissions, bal, wh, hist>>
  /\ IF ~ok
       THEN /\ UNCHANGED payouts
            /\ Ret(p, "process_payout", "Failed to update payout")
     ELSE /\ payouts' = [payouts EXCEPT
                           ![loc[p].payout_id].status = "failed",
                           ![loc[p].payout_id].transaction_id = loc[p].transaction_id,
                           ![loc[p].payout_id].processed_at = loc[p].now,
                           ![loc[p].payout_id].processed_by = loc[p].admin]
          /\ Goto(p, "proc_aff_get", loc[p])

\* A settlement that records no processed_by.
ProcessUpdatePayout_NoAuditor(p, ok) ==
  /\ pc[p] = "proc_upd"
  /\ UNCHANGED <<affiliates, links, leads, commissions, bal, wh, hist>>
  /\ IF ~ok
       THEN /\ UNCHANGED payouts
            /\ Ret(p, "process_payout", "Failed to update payout")
     ELSE /\ payouts' = [payouts EXCEPT
                           ![loc[p].payout_id].status = "completed",
                           ![loc[p].payout_id].transaction_id = loc[p].transaction_id,
                           ![loc[p].payout_id].processed_at = loc[p].now]
          /\ Goto(p, "proc_aff_get", loc[p])

\* Lines 735-737: update_item of the payout.
ProcessUpdatePayout(p, ok) ==
  /\ pc[p] = "proc_upd"
  /\ UNCHANGED <<affiliates, links, leads, commissions, bal, wh, hist>>
  /\ IF ~ok
       THEN /\ UNCHANGED payouts
            /\ Ret(p, "process_payout", "Failed to update payout")
     ELSE /\ payouts' = [payouts EXCEPT
                           ![loc[p].payout_id].status = "completed",
                           ![loc[p].payout_id].transaction_id = loc[p].transaction_id,
                           ![loc[p].payout_id].processed_at = loc[p].now,
                           ![loc[p].payout_id].processed_by = loc[p].admin]
          /\ Goto(p, "proc_aff_get", loc[p])

\* Lines 739-742: get_item of the affiliate.
ProcessGetAffiliate(p, ok) ==
  /\ pc[p] = "proc_aff_get"
  /\ UNCHANGED <<store, bal, wh, hist>>
  /\ IF ok /\ loc[p].affiliate_id \in DOMAIN affiliates
       THEN Goto(p, "proc_aff_upd",
                 [loc[p] EXCEPT !.total_paid = affiliates[loc[p].affiliate_id].total_paid])
     ELSE Goto(p, "proc_comm", loc[p])

\* Lines 743-748: total_paid of the affiliate, from the record read one step
\* before; the result of update_item is not looked at.
ProcessUpdateAffiliate(p, ok) ==
  /\ pc[p] = "proc_aff_upd"
  /\ UNCHANGED <<links, leads, commissions, payouts, bal, wh>>
  /\ hist' = IF ok THEN [hist EXCEPT !.credited[loc[p].payout_id] = @ + 1] ELSE hist
  /\ affiliates' = IF ok
                     THEN [affiliates EXCEPT ![loc[p].affiliate_id].total_paid =
                                                 loc[p].total_paid + loc[p].amount]
                   ELSE affiliates
  /\ Goto(p, "proc_comm", loc[p])

\* A query that returns every commission of the payout's affiliate.
CommissionsOfPayout_OfAffiliate(payout_id, ok) ==
  IF ok THEN {c \in DOMAIN commissions :
                commissions[c].affiliate_id = payouts[payout_id].affiliate_id}
  ELSE {}

\* query(..., index_name='payout-index', Key('payout_id').eq(payout_id))
CommissionsOfPayout(payout_id, ok) ==
  IF ok THEN {c \in DOMAIN commissions : commissions[c].payout_id = payout_id} ELSE {}

\* Lines 750-763: the commissions of the payout become 'paid'; each
\* update_item may fail on its own and its result is not looked at.  No other
\* handler writes the status or the payout_id of a stored commission, so the
\* query and its updates are one step.  F = the outcomes an update may have.
ProcessCommissions(p, ok, F) ==
  /\ pc[p] = "proc_comm"
  /\ UNCHANGED <<affiliates, links, leads, payouts, bal, wh, hist>>
  /\ \E updated \in SUBSET CommissionsOfPayout(loc[p].payout_id, ok) :
       /\ FALSE \notin F => updated = CommissionsOfPayout(loc[p].payout_id, ok)
       /\ commissions' = [c \in DOMAIN commissions |->
                            IF c \in updated
                              THEN [commissions[c] EXCEPT !.status = "paid"]
                            ELSE commissions[c]]
  /\ Ret(p, "process_payout", ProcessedMsg)

(***************************************************************************)
(* commercive_webhooks.handler: the Shopify webhook endpoint.  One request *)
(* at a time; the tables it writes are fields of wh.                       *)
(***************************************************************************)
MaxRequests == 2

WhOff == [pc |-> "off"]

\* utils/response.py lines 12-42: the status code, the header names, the body.
create_response(status_code, body) ==
  [statusCode |-> status_code, headers |-> {"Content-Type"}, body |-> body]

\* utils/response.py lines 45-66, called as success({'message': ...}).
success(message) == create_response(200, message)

\* utils/response.py lines 141-151.
cors_preflight == create_response(200, "")

\* An endpoint that reports a failure to Shopify.
Received_ServerError == create_response(500, "Internal server error")

\* Lines 69, 76, 97, 104, 204, 290: the answer to what was not processed.
Received == success("Received")

NoResponse == [statusCode |-> 0, headers |-> {}, body |-> "none"]
NoEntry == [store_id |-> "none", processed |-> FALSE]

Methods == {"POST", "OPTIONS"}
WebhookPaths == {"", "/webhooks/orders/update", "/webhooks/unknown"}
Topics == {"", "ORDERS/CREATE", "orders/updated", "inventory_levels/update",
           "fulfillments/create", "app/uninstalled", "unknown/topic"}
HmacHeaders == {"none", "valid", "invalid"}
ShopDomains == {"shop1", "other"}
\* The request body: an order payload with one line item; the same with a
\* price that is no number; {} ; a JSON list; text that is no JSON; no body.
Bodies == {"order", "bad_price", "empty", "list", "malformed", "null"}

\* str.lower() on the topics above.
lower(topic) == IF topic = "ORDERS/CREATE" THEN "orders/create" ELSE topic

\* part in topic, on the lowered topics above.
TopicHas(topic, part) ==
  \/ topic = part
  \/ topic = "orders/updated" /\ part = "orders/update"

\* Lines 107-126: no secret configured lets every request through; a missing
\* header fails; otherwise the header is compared with the HMAC of the body.
verify_hmac_signature(secret, hmac_header) ==
  IF ~secret THEN TRUE
  ELSE IF hmac_header = "none" THEN FALSE
  ELSE hmac_header = "valid"

\* Lines 82-97: the first branch whose path or topic matches.
Route(path, topic) ==
  IF path = "/webhooks/orders/create" \/ TopicHas(lower(topic), "orders/create")
    THEN "orders_create"
  ELSE IF path = "/webhooks/orders/update" \/ TopicHas(lower(topic), "orders/update")
    THEN "orders_update"
  ELSE IF path = "/webhooks/inventory/update"
          \/ TopicHas(lower(topic), "inventory_levels/update")
    THEN "inventory_update"
  ELSE IF path = "/webhooks/fulfillment/create"
          \/ TopicHas(lower(topic), "fulfillments/create")
    THEN "fulfillment_create"
  ELSE IF path = "/webhooks/app/uninstall" \/ TopicHas(lower(topic), "app/uninstalled")
    THEN "app_uninstall"
  ELSE "unknown"

\* What the handlers read from the payload.
PayloadId(body) == IF body \in {"order", "bad_price"} THEN "o1" ELSE ""
PayloadInventoryItemId(body) == IF body \in {"order", "bad_price"} THEN "i1" ELSE ""
FinancialStatus(body) == IF body \in {"order", "bad_price"} THEN "paid" ELSE "pending"
LineItems(body) == IF body \in {"order", "bad_price"} THEN {"li1"} ELSE {}

WhInit(secret) ==
  [pc |-> "idle", secret |-> secret, served |-> 0,
   h |-> "none", shop |-> "", body |-> "none",
   entry |-> NoEntry, msg |-> "none", cause |-> "none", response |-> NoResponse,
   log |-> <<>>, orders |-> <<>>, items |-> <<>>, trackings |-> 0,
   quantity |-> 0, store_active |-> TRUE]

\* The handler returns resp; cause is history: why it answered so.
WhAnswer(w, cause, resp) ==
  [w EXCEPT !.pc = "idle", !.h = "none", !.shop = "", !.body = "none",
            !.entry = NoEntry, !.msg = "none", !.cause = cause, !.response = resp]

\* The handler goes on to log_webhook and then returns success(msg).
WhToLog(w, store_id, processed, msg, cause) ==
  [w EXCEPT !.pc = "wh_log",
            !.entry = [store_id |-> store_id, processed |-> processed],
            !.msg = msg, !.cause = cause]

\* Lines 41-104: preflight, HMAC, JSON, routing.  A body of None raises in
\* json.loads(body_bytes.decode(...)) and the outer except answers.
WhReceive(method, path, topic, hmac_header, body, shop_domain) ==
  /\ wh.pc = "idle"
  /\ wh.served < MaxRequests
  /\ UNCHANGED <<store, pc, loc, out, bal, hist>>
  /\ LET w == [wh EXCEPT !.served = @ + 1, !.response = NoResponse, !.cause = "none"]
     IN wh' =
          IF method = "OPTIONS" THEN WhAnswer(w, "options", cors_preflight)
          ELSE IF ~verify_hmac_signature(wh.secret, hmac_header)
            THEN WhAnswer(w, "bad_hmac", Received)
          ELSE IF body = "malformed" THEN WhAnswer(w, "bad_json", Received)
          ELSE IF body = "null" THEN WhAnswer(w, "exception", Received)
          ELSE IF Route(path, topic) = "unknown"
            THEN [w EXCEPT !.pc = "wh_log",
                           !.entry = [store_id |-> "unknown", processed |-> FALSE],
                           !.msg = "Received", !.cause = "unknown"]
          ELSE [w EXCEPT !.pc = "wh_store", !.h = Route(path, topic),
                         !.shop = shop_domain, !.body = body]

\* Lines 129-149 and 199-206 (the same in each of the five handlers):
\* get_store_by_domain, and the answer when there is no store.
WhGetStore(ok) ==
  /\ wh.pc = "wh_store"
  /\ UNCHANGED <<store, pc, loc, out, bal, hist>>
  /\ wh' = IF ok /\ wh.shop = "shop1"
             THEN [wh EXCEPT !.pc = "wh_work"]
           ELSE WhToLog(wh, "unknown", FALSE, "Received", "no_store")

\* Lines 206-290: the order record, one record per line item, then the log.
\* A payload that is no dict raises at payload.get; a price that is no number
\* raises at float() after the order was written.
WhOrdersCreate(ok) ==
  /\ wh.pc = "wh_work" /\ wh.h = "orders_create"
  /\ UNCHANGED <<store, pc, loc, out, bal, hist>>
  /\ \E item_ok \in Outcomes :
       LET order_id == IF ok THEN Len(wh.orders) + 1 ELSE 0
           w == [wh EXCEPT !.orders =
                   IF ok THEN Append(@, [shopify_order_id |-> PayloadId(wh.body),
                                         financial_status |-> FinancialStatus(wh.body),
                                         fulfillment_status |-> "unfulfilled"])
                   ELSE @]
       IN wh' =
            IF wh.body = "list" THEN WhToLog(wh, "s1", FALSE, "Received", "raised")
            ELSE IF wh.body = "bad_price" THEN WhToLog(w, "s1", FALSE, "Received", "raised")
            ELSE WhToLog([w EXCEPT !.items =
                            IF LineItems(wh.body) # {} /\ item_ok
                              THEN Append(@, [order_id |-> order_id, line |-> "li1"])
                            ELSE @],
                         "s1", TRUE, "Order created successfully", "done")

\* Lines 314-415: the order found by its Shopify id is updated, its line items
\* updated or created; with no order found, handle_orders_create is called.
WhOrdersUpdate(ok) ==
  /\ wh.pc = "wh_work" /\ wh.h = "orders_update"
  /\ UNCHANGED <<store, pc, loc, out, bal, hist>>
  /\ LET orders == IF ok THEN {k \in DOMAIN wh.orders :
                                 wh.orders[k].shopify_order_id = PayloadId(wh.body)}
                   ELSE {}
     IN IF wh.body = "list"
          THEN wh' = WhToLog(wh, "s1", FALSE, "Received", "raised")
        ELSE IF orders = {}
          THEN wh' = [wh EXCEPT !.pc = "wh_store", !.h = "orders_create"]
        ELSE \E k \in orders, upd_ok \in Outcomes, items_ok \in Outcomes,
                item_ok \in Outcomes :
          LET w == [wh EXCEPT !.orders =
                      IF upd_ok
                        THEN [@ EXCEPT ![k].financial_status = FinancialStatus(wh.body),
                                       ![k].fulfillment_status = "unfulfilled"]
                      ELSE @]
              existing_items == IF items_ok
                                  THEN {i \in DOMAIN wh.items : wh.items[i].order_id = k}
                                ELSE {}
          IN wh' =
               IF LineItems(wh.body) = {}
                 THEN WhToLog(w, "s1", TRUE, "Order updated successfully", "done")
               ELSE IF wh.body = "bad_price"
                 THEN WhToLog(w, "s1", FALSE, "Received", "raised")
               ELSE WhToLog([w EXCEPT !.items =
                               IF existing_items = {} /\ item_ok
                                 THEN Append(@, [order_id |-> k, line |-> "li1"])
                               ELSE @],
                            "s1", TRUE, "Order updated successfully", "done")

\* Lines 439-497: the quantity of the inventory record with the payload's
\* inventory_item_id.
WhInventoryUpdate(ok) ==
  /\ wh.pc = "wh_work" /\ wh.h = "inventory_update"
  /\ UNCHANGED <<store, pc, loc, out, bal, hist>>
  /\ \E upd_ok \in Outcomes :
       wh' = IF wh.body = "list" THEN WhToLog(wh, "s1", FALSE, "Received", "raised")
             ELSE IF PayloadInventoryItemId(wh.body) = ""
               THEN WhToLog(wh, "s1", FALSE, "Received", "rejected")
             ELSE WhToLog([wh EXCEPT !.quantity = IF ok /\ upd_ok THEN 5 ELSE @],
                          "s1", TRUE, "Inventory updated successfully", "done")

\* Lines 521-605: a tracking record for the order found by the payload's
\* order_id, and the order becomes 'fulfilled'.
WhFulfillmentCreate(ok) ==
  /\ wh.pc = "wh_work" /\ wh.h = "fulfillment_create"
  /\ UNCHANGED <<store, pc, loc, out, bal, hist>>
  /\ LET orders == IF ok THEN {k \in DOMAIN wh.orders :
                                 wh.orders[k].shopify_order_id = PayloadId(wh.body)}
                   ELSE {}
     IN IF wh.body = "list"
          THEN wh' = WhToLog(wh, "s1", FALSE, "Received", "raised")
        ELSE IF orders = {}
          THEN wh' = WhToLog(wh, "s1", FALSE, "Received", "rejected")
        ELSE \E k \in orders, put_ok \in Outcomes, upd_ok \in Outcomes :
          wh' = WhToLog([wh EXCEPT
                           !.trackings = IF put_ok THEN @ + 1 ELSE @,
                           !.orders = IF upd_ok
                                        THEN [@ EXCEPT ![k].fulfillment_status = "fulfilled"]
                                      ELSE @],
                        "s1", TRUE, "Fulfillment created successfully", "done")

\* Lines 629-662: the store becomes inactive; the payload is not read.
WhAppUninstall(ok) ==
  /\ wh.pc = "wh_work" /\ wh.h = "app_uninstall"
  /\ UNCHANGED <<store, pc, loc, out, bal, hist>>
  /\ wh' = WhToLog([wh EXCEPT !.store_active = IF ok THEN FALSE ELSE @],
                   "s1", TRUE, "App uninstalled successfully", "done")

\* Lines 152-182 and the return after it: log_webhook writes what it can and
\* swallows what it cannot; the handler returns success(...).  Of the record
\* logged, the store and the processed flag are kept.
WhLog(ok) ==
  /\ wh.pc = "wh_log"
  /\ UNCHANGED <<store, pc, loc, out, bal, hist>>
  /\ wh' = WhAnswer([wh EXCEPT !.log = IF ok THEN Append(@, wh.entry) ELSE @],
                    wh.cause, success(wh.msg))

(***************************************************************************)
(* calculate_balance called on its own, on any affiliate record and any    *)
(* list of payout records.                                                 *)
(***************************************************************************)
MaxBalPayouts == 2
PayoutStatuses == {"pending", "processing", "completed", "failed"}
BalEarned == {0, 1000, 5000}
BalCachedPaid == {0, 2000, 7000}
BalAmounts == {1000, 2000}
BalPayout == [amount : BalAmounts, status : PayoutStatuses]
BalPayoutLists == UNION {[1..n -> BalPayout] : n \in 0..MaxBalPayouts}
BalIdle == [pc |-> "off"]

\* handle_get_balance's call: the affiliate record as read (found = FALSE: the
\* read returned None), the payouts as queried (queried = FALSE: the query
\* failed and returned []).
CallBalance ==
  /\ bal.pc = "call"
  /\ bal' = [bal EXCEPT !.pc = "done",
                        !.result = calculate_balance(bal.found, bal.affiliate,
                                                     IF bal.queried THEN bal.payouts ELSE <<>>)]
  /\ UNCHANGED <<store, pc, loc, out, wh, hist>>

(***************************************************************************)
(* Initial states.                                                         *)
(***************************************************************************)
\* An affiliate record as approve_user and import_affiliates_csv create it.
NewAffiliate(user, email, status) ==
  [user_id |-> user, status |-> status,
   total_leads |-> 0, total_conversions |-> 0, total_earned |-> 0, total_paid |-> 0,
   payment_method |-> "paypal", payment_email |-> email]

\* A lead record as submit_lead creates it.
NewLead(affiliate_id, link_id) ==
  [affiliate_id |-> affiliate_id, link_id |-> link_id, status |-> "new",
   converted_at |-> 0]

InitProcs ==
  /\ pc = [p \in Procs |-> "idle"]
  /\ loc = [p \in Procs |-> NoLoc]
  /\ out = NoOut
  /\ bal = BalIdle
  /\ wh = WhOff

\* Two approved affiliates, each with one link, and n leads submitted through
\* link 1.  No handler deactivates an affiliate or a link: affiliate a2 and
\* its link 2 were deactivated in the store by an operator.
InitStore(n) ==
  /\ affiliates = [a \in {"a1", "a2"} |->
                     IF a = "a1"
                       THEN [NewAffiliate("u1", "a1@x", "active") EXCEPT !.total_leads = n]
                     ELSE NewAffiliate("u2", "a2@x", "inactive")]
  /\ links = [l \in {1, 2} |->
                IF l = 1 THEN [NewLink("a1", "AB12CD", TRUE) EXCEPT !.leads_count = n]
                ELSE NewLink("a2", "EF34GH", FALSE)]
  /\ leads = [i \in 1..n |-> NewLead("a1", 1)]
  /\ commissions = <<>>
  /\ payouts = <<>>
  /\ hist = [admitted |-> <<>>, credited |-> <<>>]

\* The store after one lead of link 1 was submitted and converted for
\* 2000 cents.
InitEarned ==
  /\ affiliates = [a \in {"a1", "a2"} |->
                     IF a = "a1"
                       THEN [NewAffiliate("u1", "a1@x", "active") EXCEPT
                               !.total_leads = 1, !.total_conversions = 1,
                               !.total_earned = 2000]
                     ELSE NewAffiliate("u2", "a2@x", "inactive")]
  /\ links = [l \in {1, 2} |->
                IF l = 1 THEN [NewLink("a1", "AB12CD", TRUE) EXCEPT
                                 !.leads_count = 1, !.conversions_count = 1]
                ELSE NewLink("a2", "EF34GH", FALSE)]
  /\ leads = <<[NewLead("a1", 1) EXCEPT !.status = "converted", !.converted_at = 1]>>
  /\ commissions = <<[affiliate_id |-> "a1", lead_id |-> 1, amount |-> 2000,
                      status |-> "pending", payout_id |-> 0]>>
  /\ payouts = <<>>
  /\ hist = [admitted |-> <<>>, credited |-> <<>>]

(***************************************************************************)
(* Next-state relations.                                                   *)
(***************************************************************************)
\* submit_lead, invocation slot p, store outcome ok.
SubmitStepOn(p, ok, link_ids, short_codes, contacts) ==
  \/ \E link_id \in link_ids, short_code \in short_codes, contact \in contacts :
       SubmitStart(p, link_id, short_code, contact, ok)
  \/ SubmitPutLead(p, ok)
  \/ SubmitUpdateLink(p, ok)
  \/ SubmitGetAffiliate(p, ok)
  \/ SubmitUpdateAffiliate(p, ok)

\* update_lead_status, invocation slot p, store outcome ok.
UpdateStep(p, ok, callers, lead_ids, statuses) ==
  \/ \E caller \in callers, lead_id \in lead_ids, status \in statuses :
       UpdateStart(p, caller, lead_id, status, ok)
  \/ UpdateCheckOwner(p, ok)
  \/ UpdateWrite(p, ok)
  \/ UpdateReadBack(p, ok)

\* convert_lead, invocation slot p, store outcome ok.
ConvertStep(p, ok, callers, lead_ids, amounts) ==
  \/ \E caller \in callers, lead_id \in lead_ids, amount \in amounts :
       ConvertStart(p, caller, lead_id, amount, ok)
  \/ ConvertPutCommission(p, ok)
  \/ ConvertUpdateLead(p, ok)
  \/ ConvertGetAffiliate(p, ok)
  \/ ConvertUpdateAffiliate(p, ok)
  \/ ConvertGetLink(p, ok)
  \/ ConvertUpdateLink(p, ok)

\* handle_request_payout, invocation slot p, store outcome ok.
RequestStep(p, ok, callers, amounts, methods, emails) ==
  \/ \E caller \in callers, amount \in amounts, payment_method \in methods,
        payment_email \in emails :
       RequestStart(p, caller, amount, payment_method, payment_email, ok)
  \/ RequestBalanceGetAffiliate(p, ok)
  \/ RequestBalanceQuery(p, ok)
  \/ RequestPut(p, ok)

\* process_payout, invocation slot p, store outcome ok, update outcomes F.
ProcessStep(p, ok, F, callers, transaction_ids) ==
  \/ \E caller \in callers, payout_id \in PayoutIdInputs,
        transaction_id \in transaction_ids :
       ProcessStart(p, caller, payout_id, transaction_id, ok)
  \/ ProcessUpdatePayout(p, ok)
  \/ ProcessGetAffiliate(p, ok)
  \/ ProcessUpdateAffiliate(p, ok)
  \/ ProcessCommissions(p, ok, F)

\* Conversion and status updates of one submitted lead: concurrent
\* invocations by the administrator and the owning affiliate, store calls
\* may fail.  (The validation of the requests runs before any store call and
\* is exercised with all inputs in SpecSeq.)
Init == InitStore(1) /\ InitProcs
Next ==
  \E p \in Procs, ok \in Outcomes :
    \/ UpdateStep(p, ok, {"admin", "u1"}, {1}, {"contacted", "converted", "lost"})
    \/ ConvertStep(p, ok, {"admin", "u1"}, {1}, {JInt(1000)})
Spec == Init /\ [][Next]_vars

\* Lead intake: concurrent invocations, store calls may fail.
SubmitStep(p, ok) == SubmitStepOn(p, ok, LinkIdInputs, ShortCodeInputs, Contacts)

InitSubmit == InitStore(0) /\ InitProcs
NextSubmit == \E p \in Procs, ok \in Outcomes : SubmitStep(p, ok)
SpecSubmit == InitSubmit /\ [][NextSubmit]_vars

\* Payout request and settlement for an affiliate that has earned 2000:
\* concurrent invocations, no store call fails.
\* submit_lead alone, on two active links of two active affiliates.
InitTwoLinks ==
  /\ affiliates = [a \in {"a1", "a2"} |->
                     IF a = "a1" THEN NewAffiliate("u1", "a1@x", "active")
                     ELSE NewAffiliate("u2", "a2@x", "active")]
  /\ links = [l \in {1, 2} |->
                IF l = 1 THEN NewLink("a1", "AB12CD", TRUE)
                ELSE NewLink("a2", "EF34GH", TRUE)]
  /\ leads = <<>>
  /\ commissions = <<>>
  /\ payouts = <<>>
  /\ hist = [admitted |-> <<>>, credited |-> <<>>]
  /\ InitProcs
NextTwoLinks ==
  \E p \in Procs, ok \in Outcomes :
    SubmitStepOn(p, ok, {0, 1, 2}, {"none", "EF34GH"}, {"ok", "bad_email"})
SpecTwoLinks == InitTwoLinks /\ [][NextTwoLinks]_vars

\* request_payout on an affiliate with 2000 cents earned whose record holds
\* the payment details approve_user copied from the user: each of the two is
\* a value or None (a user who signed up has both None until the profile is
\* edited).
StoredMethods == {"none", "paypal"}
StoredEmails == {"none", "a1@x"}
InitPayment ==
  /\ \E m \in StoredMethods, e \in StoredEmails :
       affiliates = [a \in {"a1", "a2"} |->
                       IF a = "a1"
                         THEN [NewAffiliate("u1", e, "active") EXCEPT
                                 !.total_leads = 1, !.total_conversions = 1,
                                 !.total_earned = 2000, !.payment_method = m]
                       ELSE NewAffiliate("u2", "a2@x", "inactive")]
  /\ links = [l \in {1, 2} |->
                IF l = 1 THEN [NewLink("a1", "AB12CD", TRUE) EXCEPT
                                 !.leads_count = 1, !.conversions_count = 1]
                ELSE NewLink("a2", "EF34GH", FALSE)]
  /\ leads = <<[NewLead("a1", 1) EXCEPT !.status = "converted", !.converted_at = 1]>>
  /\ commissions = <<[affiliate_id |-> "a1", lead_id |-> 1, amount |-> 2000,
                      status |-> "pending", payout_id |-> 0]>>
  /\ payouts = <<>>
  /\ hist = [admitted |-> <<>>, credited |-> <<>>]
  /\ InitProcs
PaymentMethodsSent == {"none", "zelle", "venmo"}
PaymentEmailsSent == {"none", "pay@x"}
NextPayment ==
  \E p \in {1}, ok \in NoFault :
    RequestStep(p, ok, {"u1"}, {JInt(1000)}, PaymentMethodsSent, PaymentEmailsSent)
SpecPayment == InitPayment /\ [][NextPayment]_vars

\* The webhook endpoint alone, with and without a configured secret.
WebhookStep(ok) ==
  \/ \E method \in Methods, path \in WebhookPaths, topic \in Topics,
        hmac_header \in HmacHeaders, body \in Bodies, shop_domain \in ShopDomains :
       WhReceive(method, path, topic, hmac_header, body, shop_domain)
  \/ WhGetStore(ok)
  \/ WhOrdersCreate(ok)
  \/ WhOrdersUpdate(ok)
  \/ WhInventoryUpdate(ok)
  \/ WhFulfillmentCreate(ok)
  \/ WhAppUninstall(ok)
  \/ WhLog(ok)
InitWebhook ==
  /\ InitStore(0)
  /\ pc = [p \in Procs |-> "idle"]
  /\ loc = [p \in Procs |-> NoLoc]
  /\ out = NoOut
  /\ bal = BalIdle
  /\ wh \in {WhInit(secret) : secret \in BOOLEAN}
NextWebhook == \E ok \in Outcomes : WebhookStep(ok)
SpecWebhook == InitWebhook /\ [][NextWebhook]_vars

\* convert_lead alone, one invocation after the other, with store failures.
InitRetry == InitStore(1) /\ InitProcs
NextRetry ==
  \E p \in {1}, ok \in Outcomes :
    ConvertStep(p, ok, {"admin", "u1"}, {1}, {JInt(1000), JInt(2000)})
SpecRetry == InitRetry /\ [][NextRetry]_vars

\* submit_lead alone, one invocation after the other, no store failure, on
\* two links of two affiliates: link 1 active with n leads already counted,
\* link 2 active or not.
InitSubmitSeq ==
  /\ \E n \in {0, 1}, is_active \in BOOLEAN :
       /\ affiliates = [a \in {"a1", "a2"} |->
                          IF a = "a1"
                            THEN [NewAffiliate("u1", "a1@x", "active") EXCEPT
                                    !.total_leads = n]
                          ELSE NewAffiliate("u2", "a2@x", "active")]
       /\ links = [l \in {1, 2} |->
                     IF l = 1 THEN [NewLink("a1", "AB12CD", TRUE) EXCEPT !.leads_count = n]
                     ELSE NewLink("a2", "EF34GH", is_active)]
       /\ leads = [i \in 1..n |-> NewLead("a1", 1)]
  /\ commissions = <<>>
  /\ payouts = <<>>
  /\ hist = [admitted |-> <<>>, credited |-> <<>>]
  /\ InitProcs
NextSubmitSeq ==
  \E p \in {1}, ok \in NoFault :
    SubmitStepOn(p, ok, LinkIdInputs, ShortCodeInputs, Contacts)
SpecSubmitSeq == InitSubmitSeq /\ [][NextSubmitSeq]_vars

\* request_payout and process_payout interleaved, with amounts sent as a JSON
\* integer and as a JSON number with a fraction.
InitRequest == InitEarned /\ InitProcs
NextRequest ==
  \E p \in Procs, ok \in NoFault :
    \/ RequestStep(p, ok, {"u1"}, {JInt(1000), JFloat(10005)}, {"none"}, {"none"})
    \/ ProcessStep(p, ok, NoFault, {"admin"}, {"t1"})
SpecRequest == InitRequest /\ [][NextRequest]_vars

InitPay == InitEarned /\ InitProcs
NextPay ==
  \E p \in Procs, ok \in NoFault :
    \/ RequestStep(p, ok, {"u1"}, {JInt(1000), JInt(2000)}, {"none"}, {"none"})
    \/ ProcessStep(p, ok, NoFault, {"admin"}, TransactionIdInputs)
SpecPay == InitPay /\ [][NextPay]_vars

\* Conversion of one submitted lead, payout request and settlement, with
\* every input, one invocation at a time, no store call fails.
InitSeq == InitStore(1) /\ InitProcs
NextSeq ==
  \E p \in {1}, ok \in NoFault :
    \/ ConvertStep(p, ok, Callers, LeadIdInputs,
                   {JNull, JText, JInt(-1000), JInt(0), JFloat(5), JFloat(20005), JInt(2000)})
    \/ RequestStep(p, ok, Callers, RequestAmountInputs, PaymentMethodInputs,
                   PaymentEmailInputs)
    \/ ProcessStep(p, ok, NoFault, Callers, {"t1"})
SpecSeq == InitSeq /\ [][NextSeq]_vars

\* calculate_balance on any inputs.
\* Admission of payout requests against the balance of one affiliate that
\* earned 2000: one invocation at a time, store calls served.
InitAdmit == InitEarned /\ InitProcs
NextAdmit ==
  \E p \in {1}, ok \in NoFault :
    \/ RequestStep(p, ok, {"admin", "u1", "u2"}, {JInt(500), JInt(999), JInt(1000)},
                   {"none", "zelle"}, {"none"})
    \/ ProcessStep(p, ok, NoFault, {"admin"}, {"t1"})
SpecAdmit == InitAdmit /\ [][NextAdmit]_vars

\* Link creation: concurrent invocations over the store's two links, store
\* calls served.
GenerateStep(p, ok) ==
  \/ \E caller \in {"u1", "admin", "anon"}, is_affiliate \in BOOLEAN, name \in LinkNames :
       GenerateStart(p, caller, is_affiliate, name, ok)
  \/ \E short_code \in CodeSamples, uuid \in UuidSamples : GenerateTry(p, short_code, uuid, ok)
  \/ GeneratePut(p, ok)

InitLinks == InitStore(0) /\ InitProcs
NextLinks == \E p \in Procs, ok \in NoFault : GenerateStep(p, ok)
SpecLinks == InitLinks /\ [][NextLinks]_vars

\* Link creation where an invocation inside generate_unique_short_code goes
\* on running: its next pass of the loop is eventually taken.
SpecLinksFair ==
  /\ SpecLinks
  /\ \A p \in Procs :
       WF_vars(\E short_code \in CodeSamples, uuid \in UuidSamples, ok \in NoFault :
                 GenerateTry(p, short_code, uuid, ok))

InitBalance ==
  /\ InitStore(0)
  /\ pc = [p \in Procs |-> "idle"]
  /\ loc = [p \in Procs |-> NoLoc]
  /\ out = NoOut
  /\ bal \in [pc : {"call"}, found : BOOLEAN, queried : BOOLEAN,
              affiliate : [total_earned : BalEarned, total_paid : BalCachedPaid],
              payouts : BalPayoutLists, result : {ZeroBalance}]
  /\ wh = WhOff
NextBalance == CallBalance
SpecBalance == InitBalance /\ [][NextBalance]_vars

(***************************************************************************)
(* The claims.                                                             *)
(***************************************************************************)
\* The sum of f over the finite set S.
RECURSIVE SetSum(_, _)
SetSum(S, f) ==
  IF S = {} THEN 0
  ELSE LET x == CHOOSE y \in S : TRUE IN f[x] + SetSum(S \ {x}, f)

CommissionsOfLead(l) == {c \in DOMAIN commissions : commissions[c].lead_id = l}

PayoutIdsOf(a, statuses) ==
  {i \in DOMAIN payouts : payouts[i].affiliate_id = a /\ payouts[i].status \in statuses}

PayoutSum(a, statuses) ==
  SetSum(PayoutIdsOf(a, statuses), [i \in DOMAIN payouts |-> payouts[i].amount])

\* C1: every lead whose status is 'converted' has exactly one commission with
\* its lead_id.  (The code lets update_lead_status store 'converted'.)
C1_ConvertedLeadHasOneCommission ==
  \A l \in DOMAIN leads :
    leads[l].status = "converted" => Cardinality(CommissionsOfLead(l)) = 1

\* C2: convert_lead by an administrator on a lead stored as 'converted'
\* returns at once, with the already-converted error when the request is
\* well-formed and the lead was read, and changes no record.
C2_ConvertOfConvertedLeadRejected ==
  [][\A p \in Procs, lead_id \in LeadIdInputs :
       (/\ pc[p] = "idle"
        /\ lead_id \in DOMAIN leads
        /\ leads[lead_id].status = "converted")
       => \A amount \in AmountInputs, ok \in Outcomes :
            ConvertStart(p, "admin", lead_id, amount, ok)
            => /\ pc'[p] = "idle"
               /\ UNCHANGED store
               /\ (ok /\ ~IntRaises(amount) /\ Truthy(amount) /\ int(amount) > 0)
                    => out' = [op |-> "convert_lead", msg |-> AlreadyConvertedMsg]
    ]_vars

C2_Witness ==
  /\ out = [op |-> "convert_lead", msg |-> AlreadyConvertedMsg]
  /\ \E l \in DOMAIN leads : leads[l].status = "converted" /\ CommissionsOfLead(l) # {}

\* C3: when two convert_lead invocations on the same lead have both read the
\* lead and neither has yet gone past the write of its status, the store
\* holds at most one commission with that lead_id.
C3_RaceCreatesOneCommission ==
  \A p, q \in Procs :
    (/\ p # q
     /\ pc[p] \in {"conv_put", "conv_lead"}
     /\ pc[q] \in {"conv_put", "conv_lead"}
     /\ loc[p].lead_id = loc[q].lead_id)
    => Cardinality(CommissionsOfLead(loc[p].lead_id)) <= 1

\* C4: calculate_balance returns total_earned of the affiliate record, the sum
\* of the completed payouts, the sum of the pending and processing payouts and
\* max(0, earned - paid - pending); earned 5000, completed 2000, pending 1000
\* gives available 2000.
BalIdsOf(statuses) == {i \in DOMAIN bal.payouts : bal.payouts[i].status \in statuses}
BalSum(statuses) ==
  SetSum(BalIdsOf(statuses), [i \in DOMAIN bal.payouts |-> bal.payouts[i].amount])

C4_BalanceFormula ==
  (bal.pc = "done" /\ bal.found /\ bal.queried) =>
    /\ bal.result.total_earned = bal.affiliate.total_earned
    /\ bal.result.total_paid = BalSum({"completed"})
    /\ bal.result.pending = BalSum({"pending", "processing"})
    /\ bal.result.available =
         Max(0, bal.affiliate.total_earned - BalSum({"completed"})
                  - BalSum({"pending", "processing"}))
    /\ (/\ bal.affiliate.total_earned = 5000
        /\ bal.payouts = <<[amount |-> 2000, status |-> "completed"],
                           [amount |-> 1000, status |-> "pending"]>>)
       => bal.result = [total_earned |-> 5000, total_paid |-> 2000,
                        pending |-> 1000, available |-> 2000]

C4_Witness ==
  /\ bal.pc = "done" /\ bal.found /\ bal.queried
  /\ bal.affiliate.total_earned = 5000
  /\ bal.affiliate.total_paid = 7000
  /\ bal.payouts = <<[amount |-> 2000, status |-> "completed"],
                     [amount |-> 1000, status |-> "pending"]>>
  /\ bal.result.available = 2000

\* The available balance of affiliate a as the records of the store give it.
StoreAvailable(a) ==
  Max(0, affiliates[a].total_earned - PayoutSum(a, {"completed"})
           - PayoutSum(a, {"pending", "processing"}))

\* C5: a request_payout whose amount is greater than the available balance at
\* the moment the balance is computed is rejected there: the invocation
\* returns the exceeds-balance error and no record changes.
C5_ExceedingRequestRejected ==
  [][\A p \in Procs :
       (/\ pc[p] = "req_bal_query"
        /\ pc'[p] # "req_bal_query"
        /\ loc[p].amount > StoreAvailable(loc[p].affiliate_id))
       => /\ pc'[p] = "idle"
          /\ out' = [op |-> "request_payout", msg |-> ExceedsMsg]
          /\ UNCHANGED store
    ]_vars

C5_Witness ==
  /\ out = [op |-> "request_payout", msg |-> ExceedsMsg]
  /\ Len(payouts) = 1
  /\ payouts[1].status = "pending"
  /\ StoreAvailable("a1") = 1000

\* C6: one invocation at a time and no store failure: for every affiliate the
\* pending, processing and completed payouts sum to at most total_earned, and
\* every payout was admitted with an amount within the balance then available.
C6_PayoutsWithinEarned ==
  /\ \A a \in DOMAIN affiliates :
       PayoutSum(a, {"pending", "processing", "completed"}) <= affiliates[a].total_earned
  /\ \A i \in DOMAIN payouts : payouts[i].amount <= hist.admitted[i].available

C6_Witness ==
  /\ Len(payouts) = 2
  /\ payouts[1].status = "completed"
  /\ payouts[2].status = "pending"
  /\ PayoutSum("a1", {"pending", "processing", "completed"}) = affiliates["a1"].total_earned

\* An affiliate whose pending payouts exceed what it earned and was not paid.
Overdrawn(a) ==
  PayoutSum(a, {"pending"}) > affiliates[a].total_earned - PayoutSum(a, {"completed"})

\* C7: request_payout does not reserve the balance: payouts that jointly
\* overdraw are reachable, each of them admitted against the balance its
\* invocation computed, and only by an invocation that wrote its payout after
\* another payout had been written since it computed the balance.
C7_OverdrawOnlyByStaleBalance ==
  /\ \A i \in DOMAIN payouts : payouts[i].amount <= hist.admitted[i].available
  /\ \A a \in DOMAIN affiliates :
       Overdrawn(a) =>
         \E i \in DOMAIN payouts : payouts[i].affiliate_id = a /\ ~hist.admitted[i].fresh

C7_Witness ==
  /\ Overdrawn("a1")
  /\ Len(payouts) = 2
  /\ \A i \in DOMAIN payouts :
       /\ payouts[i].status = "pending"
       /\ payouts[i].amount <= hist.admitted[i].available
  /\ \A p \in Procs : pc[p] = "idle"

\* C8: a process_payout on a payout that an earlier, finished process_payout
\* completed returns the already-processed error, and the payout's amount was
\* added to the affiliate's total_paid exactly once.
C8_SecondProcessRejected ==
  [][\A p \in Procs, payout_id \in PayoutIdInputs, transaction_id \in TransactionIdInputs :
       (/\ ProcessStart(p, "admin", payout_id, transaction_id, TRUE)
        /\ payout_id \in DOMAIN payouts
        /\ payouts[payout_id].status = "completed")
       => /\ out' = [op |-> "process_payout", msg |-> AlreadyProcessedMsg]
          /\ pc'[p] = "idle"
          /\ hist.credited[payout_id] = 1
          /\ affiliates' = affiliates
          /\ affiliates[payouts[payout_id].affiliate_id].total_paid =
               PayoutSum(payouts[payout_id].affiliate_id, {"completed"})
    ]_vars

C8_Witness ==
  /\ out = [op |-> "process_payout", msg |-> AlreadyProcessedMsg]
  /\ Len(payouts) = 1
  /\ payouts[1].status = "completed"
  /\ affiliates["a1"].total_paid = payouts[1].amount
  /\ hist.credited[1] = 1

\* C9: a payout is created 'pending', its status only ever changes from
\* pending or processing to 'completed', and once it is 'completed' or
\* 'failed' no step changes its status, transaction_id, processed_at or
\* processed_by.
C9_SettledPayoutIsFinal ==
  [][/\ \A i \in DOMAIN payouts' \ DOMAIN payouts : payouts'[i].status = "pending"
     /\ \A i \in DOMAIN payouts :
          /\ payouts'[i].status # payouts[i].status =>
               (payouts[i].status \in {"pending", "processing"}
                  /\ payouts'[i].status = "completed")
          /\ payouts[i].status \in {"completed", "failed"} =>
               /\ payouts'[i].status = payouts[i].status
               /\ payouts'[i].transaction_id = payouts[i].transaction_id
               /\ payouts'[i].processed_at = payouts[i].processed_at
               /\ payouts'[i].processed_by = payouts[i].processed_by
    ]_vars

\* The link a submission refers to: by link_id when the body has one, by
\* short_code otherwise.
ReferredLinks(link_id, short_code) ==
  IF link_id # 0 THEN {link_id} \cap DOMAIN links ELSE LinksOfCode(short_code)

NotPositiveInteger(v) ==
  \/ v.kind \in {"null", "empty", "text", "list"}
  \/ v.kind = "int" /\ v.n <= 0
  \/ v.kind = "float" /\ (v.n <= 0 \/ v.n % 10 # 0)

\* C11: convert_lead by an administrator with an amount that is zero,
\* negative, missing or not an integer returns a validation error at once and
\* changes no record.
C11_BadAmountRejected ==
  [][\A p \in Procs, lead_id \in LeadIdInputs, amount \in AmountInputs, ok \in Outcomes :
       (/\ ConvertStart(p, "admin", lead_id, amount, ok)
        /\ NotPositiveInteger(amount))
       => /\ pc'[p] = "idle"
          /\ out'.op = "convert_lead"
          /\ out'.msg \in {"amount is required", "amount must be greater than 0",
                           ConvertInvalidMsg}
          /\ UNCHANGED store
    ]_vars

\* C13: no two active links have the same short_code.
C13_ActiveShortCodesUnique ==
  \A l, m \in DOMAIN links :
    (l # m /\ links[l].is_active /\ links[m].is_active)
      => links[l].short_code # links[m].short_code

\* C14: 'converted' is terminal: no step changes the status of a lead that is
\* stored as 'converted'.
C14_ConvertedIsTerminal ==
  [][\A l \in DOMAIN leads :
       leads[l].status = "converted" => leads'[l].status = "converted"]_vars

\* C15: 'lost' is terminal for conversion: a convert_lead that reads a lead
\* stored as 'lost' returns without going on to write a commission or the
\* lead.
C15_LostLeadNotConverted ==
  [][\A p \in Procs, lead_id \in LeadIdInputs, amount \in AmountInputs, ok \in Outcomes :
       (/\ ConvertStart(p, "admin", lead_id, amount, ok)
        /\ lead_id \in DOMAIN leads
        /\ leads[lead_id].status = "lost")
       => pc'[p] = "idle"
    ]_vars

\* C16: every lead stored as 'converted' has converted_at set.
C16_ConvertedLeadHasConvertedAt ==
  \A l \in DOMAIN leads : leads[l].status = "converted" => leads[l].converted_at # 0

\* C18: conversion is privileged: a step that changes a lead's stored status
\* to 'converted' is the write of a convert_lead or of an update_lead_status
\* called by an administrator.
C18_OnlyAdminConverts ==
  [][\A l \in DOMAIN leads :
       (leads[l].status # "converted" /\ leads'[l].status = "converted")
       => \E p \in Procs :
            /\ pc'[p] # pc[p]
            /\ \/ pc[p] = "conv_lead"
               \/ pc[p] = "upd_write" /\ role(loc[p].caller) = "admin"
    ]_vars

\* The responses of require_admin to a caller it turns away.
NotAdminMsgs == {"Invalid or missing authentication token", "Admin access required"}

\* C17: convert_lead and process_payout called without a valid identity or by
\* a caller who is no administrator return the unauthenticated or forbidden
\* error in their first step, the same whether or not the store answers, and
\* change no record.  (A first step of convert_lead is a step of an idle
\* invocation that answers as convert_lead or goes on to its put_item, and
\* likewise for process_payout and its update_item.)
C17_PrivilegedCallsNeedAdmin ==
  [][\A p \in Procs, caller \in Callers \ {"admin"} :
       /\ (pc[p] = "idle" /\ (out'.op = "convert_lead" \/ pc'[p] = "conv_put"))
          => \A lead_id \in LeadIdInputs, amount \in AmountInputs :
            ConvertStart(p, caller, lead_id, amount, TRUE)
            => /\ ConvertStart(p, caller, lead_id, amount, FALSE)
               /\ pc'[p] = "idle"
               /\ out'.op = "convert_lead" /\ out'.msg \in NotAdminMsgs
               /\ UNCHANGED store
       /\ (pc[p] = "idle" /\ (out'.op = "process_payout" \/ pc'[p] = "proc_upd"))
          => \A payout_id \in PayoutIdInputs, transaction_id \in TransactionIdInputs :
            ProcessStart(p, caller, payout_id, transaction_id, TRUE)
            => /\ ProcessStart(p, caller, payout_id, transaction_id, FALSE)
               /\ pc'[p] = "idle"
               /\ out'.op = "process_payout" /\ out'.msg \in NotAdminMsgs
               /\ UNCHANGED store
    ]_vars

\* A caller who is no administrator was turned away while a pending payout
\* was waiting to be settled.
C17_Witness ==
  /\ out.msg \in NotAdminMsgs
  /\ out.op \in {"convert_lead", "process_payout"}
  /\ \E i \in DOMAIN payouts : payouts[i].status = "pending"
  /\ \A p \in Procs : pc[p] = "idle"

\* C19: when a lookup inside calculate_balance fails (the affiliate is not
\* read, or the query of its payouts fails) the result is the zeroed balance.
C19_LookupFailureGivesZero ==
  (bal.pc = "done" /\ (~bal.found \/ ~bal.queried)) => bal.result = ZeroBalance

\* The responses of handle_request_payout to a caller without an active
\* affiliate record.
NotAffiliateMsgs ==
  {"You must be an affiliate to request payouts", "Your affiliate account is not active"}

\* C20: request_payout with a well-formed amount by an authenticated caller
\* who has no affiliate record, or none that is active, returns Forbidden at
\* once and changes no record.
C20_NonAffiliateForbidden ==
  [][\A p \in Procs, caller \in Callers \ {"anon"} :
       (/\ pc[p] = "idle"
        /\ \A a \in AffiliatesOfUser(caller) : affiliates[a].status # "active")
       => \A amount \in AmountInputs, payment_method \in PaymentMethodInputs,
             payment_email \in PaymentEmailInputs, ok \in Outcomes :
            (/\ AmountCheck(amount, "amount must be a positive number",
                            RequestInvalidMsg) = "ok"
             /\ RequestStart(p, caller, amount, payment_method, payment_email, ok))
            => /\ pc'[p] = "idle"
               /\ out'.op = "request_payout"
               /\ out'.msg \in NotAffiliateMsgs
               /\ UNCHANGED store
    ]_vars

\* An inactive affiliate was turned away while the store held money earned.
C20_Witness ==
  /\ out = [op |-> "request_payout", msg |-> "Your affiliate account is not active"]
  /\ affiliates["a1"].total_earned > 0
  /\ \A p \in Procs : pc[p] = "idle"

\* C12 as stated: a request_payout with a positive amount below the minimum
\* payout fails with the below-minimum error whatever the available balance.
C12_BelowMinimumForEveryBalance ==
  [][\A p \in Procs :
       (/\ pc[p] = "req_bal_query"
        /\ pc'[p] # "req_bal_query"
        /\ loc[p].amount < MINIMUM_PAYOUT)
       => /\ pc'[p] = "idle"
          /\ out' = [op |-> "request_payout", msg |-> BelowMinimumMsg]
          /\ UNCHANGED store
    ]_vars

\* C12: a request_payout by an active affiliate with a positive amount below
\* the minimum payout creates no payout whatever the available balance; the
\* error is the below-minimum error when the amount is within the available
\* balance and the exceeds-balance error when it is above it.
C12_BelowMinimumRejected ==
  [][\A p \in Procs :
       (/\ pc[p] = "req_bal_query"
        /\ pc'[p] # "req_bal_query"
        /\ loc[p].amount < MINIMUM_PAYOUT)
       => /\ pc'[p] = "idle"
          /\ out' = [op |-> "request_payout",
                     msg |-> IF loc[p].amount > StoreAvailable(loc[p].affiliate_id)
                               THEN ExceedsMsg ELSE BelowMinimumMsg]
          /\ UNCHANGED store
    ]_vars

\* A request below the minimum was turned away with the below-minimum error
\* while half of the earnings were held by a pending payout.
C12_Witness ==
  /\ out = [op |-> "request_payout", msg |-> BelowMinimumMsg]
  /\ Len(payouts) = 1
  /\ payouts[1].status = "pending"
  /\ StoreAvailable("a1") = 1000

\* How many of the four writes of a conversion of lead 1 are done: read off the
\* position of the invocation that runs it, or, with none running, all four
\* once its commission is stored.
ConvertWritesDone ==
  IF \E p \in Procs : pc[p] = "conv_put" THEN 0
  ELSE IF \E p \in Procs : pc[p] = "conv_lead" THEN 1
  ELSE IF \E p \in Procs : pc[p] \in {"conv_aff_get", "conv_aff_upd"} THEN 2
  ELSE IF \E p \in Procs : pc[p] \in {"conv_link_get", "conv_link_upd"} THEN 3
  ELSE IF commissions = <<>> THEN 0
  ELSE 4

\* C21: a convert_lead that meets no failure writes, in this order: one
\* pending commission with the amount, the lead and the lead's affiliate; the
\* lead as 'converted' with converted_at; the affiliate's total_conversions
\* plus 1 and total_earned plus the amount; the link's conversions_count plus
\* 1; and it answers with the success message only after the four.
C21_ConversionWritesInOrder ==
  LET n == ConvertWritesDone
      amount == IF commissions = <<>> THEN 0 ELSE commissions[1].amount
  IN /\ Len(commissions) = (IF n >= 1 THEN 1 ELSE 0)
     /\ n >= 1 => /\ commissions[1].lead_id = 1
                  /\ commissions[1].affiliate_id = leads[1].affiliate_id
                  /\ commissions[1].status = "pending"
                  /\ commissions[1].amount > 0
                  /\ \A p \in Procs : pc[p] = "conv_lead" => loc[p].amount = amount
     /\ (leads[1].status = "converted") = (n >= 2)
     /\ (leads[1].converted_at # 0) = (n >= 2)
     /\ affiliates["a1"].total_conversions = (IF n >= 3 THEN 1 ELSE 0)
     /\ affiliates["a1"].total_earned = (IF n >= 3 THEN amount ELSE 0)
     /\ links[1].conversions_count = (IF n >= 4 THEN 1 ELSE 0)
     /\ out = [op |-> "convert_lead", msg |-> ConvertedMsg] => n = 4

C21_Witness ==
  /\ out = [op |-> "convert_lead", msg |-> ConvertedMsg]
  /\ commissions = <<[affiliate_id |-> "a1", lead_id |-> 1, amount |-> 2000,
                      status |-> "pending", payout_id |-> 0]>>
  /\ leads[1].status = "converted"
  /\ affiliates["a1"].total_conversions = 1
  /\ affiliates["a1"].total_earned = 2000
  /\ links[1].conversions_count = 1

\* C22: once submit_lead has stored its lead, no outcome of the two counter
\* updates (leads_count of the link, total_leads of the affiliate) or of the
\* read between them changes the rest: the lead stays stored with status
\* 'new', and the invocation ends with the confirmation.
C22_CounterFailureStillConfirms ==
  [][\A p \in Procs :
       (pc[p] \in {"sub_link", "sub_aff_get", "sub_aff_upd"} /\ pc'[p] # pc[p])
       => /\ leads' = leads
          /\ \E i \in DOMAIN leads' :
               leads'[i] = [affiliate_id |-> loc[p].affiliate_id,
                            link_id |-> loc[p].link_id,
                            status |-> "new", converted_at |-> 0]
          /\ pc'[p] \in {"sub_aff_get", "sub_aff_upd", "idle"}
          /\ pc'[p] = "idle"
             => out' = [op |-> "submit_lead", msg |-> SubmittedMsg]]_vars

\* Confirmed, with one lead stored and neither counter written.
C22_Witness ==
  /\ out = [op |-> "submit_lead", msg |-> SubmittedMsg]
  /\ Len(leads) = 1
  /\ leads[1].status = "new"
  /\ links[1].leads_count = 0
  /\ affiliates["a1"].total_leads = 0
  /\ \A p \in Procs : pc[p] = "idle"

\* C23: a 'pending' payout has transaction_id, processed_at and processed_by
\* all null; a 'completed' payout has processed_at and processed_by set.
C23_SettlementFieldsFollowStatus ==
  \A i \in DOMAIN payouts :
    /\ payouts[i].status = "pending"
       => /\ payouts[i].transaction_id = "none"
          /\ payouts[i].processed_at = 0
          /\ payouts[i].processed_by = "none"
    /\ payouts[i].status = "completed"
       => /\ payouts[i].processed_at # 0
          /\ payouts[i].processed_by # "none"

\* A settled payout next to a requested one.
C23_Witness ==
  /\ \E i \in DOMAIN payouts : payouts[i].status = "completed"
  /\ \E i \in DOMAIN payouts : payouts[i].status = "pending"

\* The answers submit_lead gives with success = False.
SubmitRejections ==
  {"link_id or short_code is required", "name is required", "email is required",
   "phone is required", "Invalid email format", "Invalid referral link",
   "This referral link is no longer active", "Failed to save lead"}

Accepted(o) == o.op = "submit_lead" /\ o.msg \notin SubmitRejections

\* C25: the answer to an accepted submit_lead does not tell the affiliate:
\* two accepted submissions with the same contact fields, whichever links and
\* affiliates they went to, are answered with the same response.
C25_ResponseHidesAffiliate ==
  [][(Accepted(out) /\ Accepted(out')) => out' = out]_vars

\* Both affiliates have received a lead, and the last one was just answered.
C25_Witness ==
  /\ Accepted(out)
  /\ \E i \in DOMAIN leads : leads[i].affiliate_id = "a1"
  /\ \E i \in DOMAIN leads : leads[i].affiliate_id = "a2"
  /\ \A p \in Procs : pc[p] = "idle"

\* C26: request_payout takes payment_method and payment_email from the
\* request when supplied and from the affiliate's record otherwise; it
\* creates a payout only when that method is paypal or zelle and that email
\* is not empty; the payout created stores exactly those two values.
C26_EffectivePaymentDetails ==
  [][/\ \A m \in PaymentMethodsSent, e \in PaymentEmailsSent :
          (pc[1] = "idle" /\ pc'[1] = "req_bal_aff"
           /\ RequestStart(1, "u1", JInt(1000), m, e, TRUE))
          => /\ loc'[1].payment_method =
                  (IF m # "none" THEN m ELSE affiliates["a1"].payment_method)
             /\ loc'[1].payment_email =
                  (IF e # "none" THEN e ELSE affiliates["a1"].payment_email)
     /\ payouts' # payouts
        => /\ pc[1] = "req_put"
           /\ Len(payouts') = Len(payouts) + 1
           /\ payouts'[Len(payouts')].payment_method = loc[1].payment_method
           /\ payouts'[Len(payouts')].payment_email = loc[1].payment_email
           /\ loc[1].payment_method \in {"paypal", "zelle"}
           /\ loc[1].payment_email # "none"]_vars

\* One payout from the request's details, one from the stored ones.
C26_Witness ==
  /\ Len(payouts) = 2
  /\ \E i \in DOMAIN payouts :
       payouts[i].payment_method = "zelle" /\ payouts[i].payment_email = "pay@x"
  /\ \E i \in DOMAIN payouts :
       payouts[i].payment_method = "paypal" /\ payouts[i].payment_email = "a1@x"

\* C27: the webhook handler answers every request with HTTP 200: an unknown
\* topic or path, an invalid HMAC, a body that is no JSON, an unknown shop,
\* an exception while processing, and a processed webhook alike.
C27_WebhookAlwaysAnswers200 ==
  /\ wh.response # NoResponse => wh.response.statusCode = 200
  /\ wh.cause \in {"unknown", "bad_hmac", "bad_json", "no_store", "exception",
                   "raised", "rejected", "done", "options"}
     => (wh.pc = "idle" => wh.response.statusCode = 200)
  /\ (wh.pc = "idle" /\ wh.served > 0) => wh.response # NoResponse

\* An exception in a handler was answered after an invalid HMAC was.
C27_Witness ==
  /\ wh.pc = "idle"
  /\ wh.served = 2
  /\ wh.cause = "raised"
  /\ wh.response = [statusCode |-> 200, headers |-> {"Content-Type"}, body |-> "Received"]
  /\ wh.log = <<[store_id |-> "s1", processed |-> FALSE]>>
  /\ wh.secret

\* C28: an OPTIONS request is answered with status 200 and headers that
\* contain 'Access-Control-Allow-Origin'.
C28_PreflightHasCorsHeader ==
  (wh.pc = "idle" /\ wh.cause = "options")
  => /\ wh.response.statusCode = 200
     /\ "Access-Control-Allow-Origin" \in wh.response.headers

\* C29: when convert_lead is called again after a call that created the
\* commission and failed to update the lead, no lead ends up with two
\* commissions.
C29_RetryCreatesNoSecondCommission ==
  [][\A l \in DOMAIN leads :
       (/\ pc[1] = "conv_put"
        /\ loc[1].lead_id = l
        /\ leads[l].status # "converted"
        /\ CommissionsOfLead(l) # {})
       => Len(commissions') = Len(commissions)]_vars

\* C30: when the commission was written and the update of the lead fails,
\* the commission stays and the lead stays not converted; convert_lead goes
\* on to the affiliate's totals and the link's counter and ends with the
\* success response.
C30_LeadUpdateFailureGoesOn ==
  [][\A l \in DOMAIN leads :
       (/\ pc[1] \in {"conv_lead", "conv_aff_get", "conv_aff_upd",
                      "conv_link_get", "conv_link_upd"}
        /\ pc'[1] # pc[1]
        /\ loc[1].lead_id = l
        /\ leads'[l].status # "converted")
       => /\ commissions' = commissions
          /\ CommissionsOfLead(l) # {}
          /\ leads' = leads
          /\ pc[1] = "conv_lead" => (pc'[1] = "conv_aff_get" /\ out' = NoOut)
          /\ ConvertUpdateAffiliate(1, TRUE)
             => /\ affiliates'[loc[1].affiliate_id].total_conversions =
                     affiliates[loc[1].affiliate_id].total_conversions + 1
                /\ affiliates'[loc[1].affiliate_id].total_earned =
                     affiliates[loc[1].affiliate_id].total_earned + loc[1].amount
          /\ ConvertUpdateLink(1, TRUE)
             => links'[loc[1].link_id].conversions_count =
                  links[loc[1].link_id].conversions_count + 1
          /\ pc'[1] = "idle"
             => out' = [op |-> "convert_lead", msg |-> ConvertedMsg]]_vars

\* Success was reported with the commission stored, the counters raised and
\* the lead still 'new'.
C30_Witness ==
  /\ out = [op |-> "convert_lead", msg |-> ConvertedMsg]
  /\ pc[1] = "idle"
  /\ leads[1].status = "new"
  /\ Len(commissions) = 1
  /\ commissions[1].lead_id = 1
  /\ affiliates["a1"].total_conversions = 1
  /\ affiliates["a1"].total_earned = commissions[1].amount
  /\ links[1].conversions_count = 1

\* C31: when the write of the commission fails, convert_lead returns the
\* server error at once: the lead, the affiliate's totals and the link's
\* counter are as they were, and no later step of the call runs.
C31_FailedCommissionWriteStops ==
  [][(pc[1] = "conv_put" /\ pc'[1] # "conv_put" /\ commissions' = commissions)
     => /\ out' = [op |-> "convert_lead", msg |-> "Failed to create commission"]
        /\ pc'[1] = "idle"
        /\ leads' = leads
        /\ affiliates' = affiliates
        /\ links' = links]_vars

\* The error was returned and the store is as before the call.
C31_Witness ==
  /\ out = [op |-> "convert_lead", msg |-> "Failed to create commission"]
  /\ pc[1] = "idle"
  /\ commissions = <<>>
  /\ leads[1].status = "new" /\ leads[1].converted_at = 0
  /\ affiliates["a1"].total_conversions = 0 /\ affiliates["a1"].total_earned = 0
  /\ links[1].conversions_count = 0

\* C32: in every state, whatever the interleaving of process_payout calls,
\* an affiliate's total_paid is at most the sum of the amounts of its
\* 'completed' payouts.
C32_TotalPaidWithinCompleted ==
  \A a \in DOMAIN affiliates :
    affiliates[a].total_paid <= PayoutSum(a, {"completed"})

LeadsOfLink(l) == {i \in DOMAIN leads : leads[i].link_id = l}
LeadsOfAffiliate(a) == {i \in DOMAIN leads : leads[i].affiliate_id = a}

\* C33: with submit_lead invocations one at a time and no store failure,
\* after each invocation leads_count of every link is the number of leads with
\* that link_id and total_leads of every affiliate is the number of leads with
\* that affiliate_id.
C33_CountersMatchLeads ==
  pc[1] = "idle"
  => /\ \A l \in DOMAIN links : links[l].leads_count = Cardinality(LeadsOfLink(l))
     /\ \A a \in DOMAIN affiliates :
          affiliates[a].total_leads = Cardinality(LeadsOfAffiliate(a))

\* Two leads were submitted, one to each link.
C33_Witness ==
  /\ pc[1] = "idle"
  /\ out = [op |-> "submit_lead", msg |-> SubmittedMsg]
  /\ Len(leads) = 2
  /\ links[1].leads_count = 1 /\ links[2].leads_count = 1
  /\ affiliates["a1"].total_leads = 1 /\ affiliates["a2"].total_leads = 1

\* C34: under concurrent submit_lead invocations on one link, leads_count is
\* in every state at most the number of leads with that link_id: increments
\* may be lost, none is counted twice.
C34_LeadsCountNeverOverCounts ==
  \A l \in DOMAIN links : links[l].leads_count <= Cardinality(LeadsOfLink(l))

\* Two submissions ran together on link 1 and one increment was lost.
C34_Witness ==
  /\ \A p \in Procs : pc[p] = "idle"
  /\ Cardinality(LeadsOfLink(1)) = 2
  /\ links[1].leads_count = 1

CommissionsOfAffiliate(a) == {c \in DOMAIN commissions : commissions[c].affiliate_id = a}

\* C35: in every state, with convert_lead invocations interleaved and counter
\* updates failing, an affiliate's total_earned is at most the sum of the
\* amounts of its commissions and its total_conversions at most their number.
C35_EarnedWithinCommissions ==
  \A a \in DOMAIN affiliates :
    /\ affiliates[a].total_earned <=
         SetSum(CommissionsOfAffiliate(a),
                [c \in DOMAIN commissions |-> commissions[c].amount])
    /\ affiliates[a].total_conversions <= Cardinality(CommissionsOfAffiliate(a))

\* Two conversions ran together and one credit was lost.
C35_Witness ==
  /\ \A p \in Procs : pc[p] = "idle"
  /\ Cardinality(CommissionsOfAffiliate("a1")) = 2
  /\ affiliates["a1"].total_conversions = 1
  /\ affiliates["a1"].total_earned = 1000

\* C36: across every step, with invocations interleaved, the stored
\* total_leads, total_conversions, total_earned and total_paid of an affiliate
\* never decrease.
C36_CountersNeverDecrease ==
  [][\A a \in DOMAIN affiliates :
       /\ affiliates'[a].total_leads >= affiliates[a].total_leads
       /\ affiliates'[a].total_conversions >= affiliates[a].total_conversions
       /\ affiliates'[a].total_earned >= affiliates[a].total_earned
       /\ affiliates'[a].total_paid >= affiliates[a].total_paid]_vars

\* The amount a request names, in tenths of a cent.
SentTenths(v) == IF v.kind = "float" THEN v.n ELSE 10 * v.n

\* C37: a successful request_payout adds exactly one payout, 'pending' and of
\* the requested amount, and changes nothing else: no affiliate, no
\* commission, no other payout.
C37_RequestAddsOnePendingPayout ==
  [][\A p \in Procs :
       /\ \A amount \in {JInt(1000), JFloat(10005)} :
            (pc[p] = "idle" /\ pc'[p] = "req_bal_aff"
             /\ RequestStart(p, "u1", amount, "none", "none", TRUE))
            => 10 * loc'[p].amount = SentTenths(amount)
       /\ (pc[p] \in {"idle", "req_bal_aff", "req_bal_query", "req_put"}
           /\ pc'[p] \in {"idle", "req_bal_aff", "req_bal_query", "req_put"}
           /\ pc'[p] # pc[p])
          => /\ affiliates' = affiliates
             /\ commissions' = commissions
             /\ \A i \in DOMAIN payouts : payouts'[i] = payouts[i]
             /\ IF out' = [op |-> "request_payout", msg |-> PayoutRequestedMsg]
                  THEN /\ Len(payouts') = Len(payouts) + 1
                       /\ payouts'[Len(payouts')].status = "pending"
                       /\ payouts'[Len(payouts')].amount = loc[p].amount
                ELSE payouts' = payouts]_vars

\* What calculate_balance returns as available for affiliate a on the store.
AvailableOf(a) ==
  calculate_balance(TRUE, affiliates[a], PayoutsOfAffiliate(a, TRUE)).available

\* C38: settling a payout does not change what the affiliate can withdraw:
\* no step of process_payout changes the available value calculate_balance
\* returns for any affiliate.
C38_SettlingKeepsAvailable ==
  [][\A p \in Procs :
       (pc[p] \in {"proc_upd", "proc_aff_get", "proc_aff_upd", "proc_comm"}
        /\ pc'[p] # pc[p])
       => \A a \in DOMAIN affiliates : AvailableOf(a)' = AvailableOf(a)]_vars

\* Payout 1 of 1000 cents was settled and credited; 1000 cents stay available.
C38_Witness ==
  /\ out = [op |-> "process_payout", msg |-> ProcessedMsg]
  /\ \A p \in Procs : pc[p] = "idle"
  /\ Len(payouts) = 1
  /\ payouts[1].status = "completed" /\ payouts[1].amount = 1000
  /\ affiliates["a1"].total_paid = 1000
  /\ AvailableOf("a1") = 1000

\* C39: every stored commission has status 'pending' and no payout_id: no
\* sequence of convert_lead, request_payout and process_payout calls assigns
\* a commission to a payout or moves it to 'approved' or 'paid'.
C39_CommissionsStayPending ==
  \A c \in DOMAIN commissions :
    commissions[c].status = "pending" /\ commissions[c].payout_id = 0

\* A lead was converted, a payout of its affiliate was requested and settled,
\* and the commission is still 'pending' with no payout_id.
C39_Witness ==
  /\ Len(commissions) >= 1
  /\ \E i \in DOMAIN payouts :
       /\ payouts[i].status = "completed"
       /\ payouts[i].affiliate_id = commissions[1].affiliate_id
  /\ out = [op |-> "process_payout", msg |-> ProcessedMsg]
  /\ pc[1] = "idle"
  /\ commissions[1].status = "pending" /\ commissions[1].payout_id = 0

\* The characters of a short code.
Spell(code) == (CHOOSE e \in CodeTable : e[1] = code)[2]

\* C40: generate_unique_short_code always terminates: every lookup against
\* the short-code index is at most the 10th of its call, the call returns the
\* first candidate the index does not hold or, after 10 lookups that each
\* found the candidate taken, the truncated uuid, and every returned code is
\* 6 characters drawn from uppercase letters and digits.
C40_ShortCodeTerminates ==
  /\ [](\A p \in Procs :
          /\ pc[p] = "gen_try" => loc[p].attempts < max_attempts
          /\ pc[p] = "gen_put"
               => /\ loc[p].attempts <= max_attempts
                  /\ Len(Spell(loc[p].short_code)) = 6
                  /\ \A i \in 1..Len(Spell(loc[p].short_code)) :
                       Spell(loc[p].short_code)[i] \in chars)
  /\ [][\A p \in Procs :
          (pc[p] = "gen_try" /\ pc'[p] = "gen_put")
          => \/ /\ loc'[p].attempts = loc[p].attempts
                /\ loc'[p].short_code \in CodeSamples
                /\ LinksOfCode(loc'[p].short_code) = {}
             \/ /\ loc[p].attempts = max_attempts - 1
                /\ loc'[p].attempts = max_attempts
                /\ loc'[p].short_code \in UuidSamples]_vars
  /\ \A p \in Procs : (pc[p] = "gen_try") ~> (pc[p] = "gen_put")

\* Ten candidates in a row were found taken and the call returned the
\* truncated uuid "1A2B3C".
C40_Witness ==
  \E p \in Procs :
    /\ pc[p] = "gen_put"
    /\ loc[p].attempts = max_attempts
    /\ loc[p].short_code = "1A2B3C"

====
